---------------------------- MODULE Spec2Model ----------------------------
(***************************************************************************)
(* A model of the PICOSplat rendering shaders: the covariance-projection   *)
(* and distance compute kernels, the quad-expansion vertex shader and the  *)
(* Gaussian pixel shader.                                                  *)
(*                                                                         *)
(* Number model.  The shaders compute in float/half.  Here every real is   *)
(* an exact rational <<n, d>> (d > 0, lowest terms); a square root that is *)
(* not rational is kept as an exact surd.  Division by zero, the square    *)
(* root of a negative number and the normalisation of the zero vector give *)
(* the non-finite marker NonFinite (an IEEE infinity or NaN).  A 32-bit    *)
(* uint is the set of the positions of its 1 bits, so that shifts drop the *)
(* bits that leave the word.  Rounding of float and half operations is not *)
(* modelled.                                                               *)
(***************************************************************************)
EXTENDS Integers, Sequences, FiniteSets, TLC

(***************************************************************************)
(* Bounds of the model.                                                    *)
(***************************************************************************)
\* The largest num_splats of a scene.
MaxSplats == 2
\* THREAD_GROUP_SIZE_X, a define the host supplies: a dispatch runs whole
\* thread groups, so it may hold invocations past num_splats.
THREAD_GROUP_SIZE_X == 2
\* The largest number of parse_metadata calls on one parser.
MaxCalls == 2
\* The largest number of iterations of the header loop that are followed.
MaxIterations == 8

(***************************************************************************)
(* Exact rationals.                                                        *)
(***************************************************************************)
Abs(a) == IF a < 0 THEN -a ELSE a

RECURSIVE Gcd(_, _)
Gcd(a, b) == IF b = 0 THEN a ELSE Gcd(b, a % b)

\* The rational n/d (d # 0) in lowest terms with a positive denominator.
RNorm(n, d) ==
    LET g == Gcd(Abs(n), Abs(d))
        s == IF d < 0 THEN -1 ELSE 1
    IN  <<(s * n) \div g, (s * d) \div g>>

\* The marker of a non-finite float (NaN); <<1, 0>> and <<-1, 0>> are the
\* infinities a division by zero gives.  Arithmetic on a non-finite operand
\* gives NonFinite.
NonFinite == <<0, 0>>
IsFinite(p) == p[2] # 0

R(n) == <<n, 1>>
RAdd(p, q) ==
    IF IsFinite(p) /\ IsFinite(q)
    THEN RNorm(p[1] * q[2] + q[1] * p[2], p[2] * q[2]) ELSE NonFinite
RNeg(p) == <<-p[1], p[2]>>
RSub(p, q) == RAdd(p, RNeg(q))
RMul(p, q) ==
    IF IsFinite(p) /\ IsFinite(q)
    THEN RNorm(p[1] * q[1], p[2] * q[2]) ELSE NonFinite
\* The float division p / q: a zero divisor gives an infinity or NaN.
RDiv(p, q) ==
    IF ~(IsFinite(p) /\ IsFinite(q)) THEN NonFinite
    ELSE IF q[1] = 0
    THEN <<(IF p[1] > 0 THEN 1 ELSE IF p[1] < 0 THEN -1 ELSE 0), 0>>
    ELSE RNorm(p[1] * q[2], p[2] * q[1])
RSign(p) == IF p[1] > 0 THEN 1 ELSE IF p[1] < 0 THEN -1 ELSE 0
RLt(p, q) == p[1] * q[2] < q[1] * p[2]
RLe(p, q) == p[1] * q[2] <= q[1] * p[2]
\* Truncation of a non-negative rational to an integer, as uint(x) does.
RTrunc(p) == p[1] \div p[2]

\* saturate(x): the clamp to [0, 1]; NaN and -infinity give 0, +infinity 1.
saturate(p) ==
    IF ~IsFinite(p) THEN (IF p[1] > 0 THEN R(1) ELSE R(0))
    ELSE IF RLt(p, R(0)) THEN R(0)
    ELSE IF RLt(R(1), p) THEN R(1)
    ELSE p

(***************************************************************************)
(* 32-bit words as sets of bit positions.                                  *)
(***************************************************************************)
WordBits == 0 .. 31

RECURSIVE Pow2(_)
Pow2(k) == IF k = 0 THEN 1 ELSE 2 * Pow2(k - 1)

\* The word holding the integer v (0 <= v < 2^31).
ToWord(v) == {i \in 0 .. 30 : (v \div Pow2(i)) % 2 = 1}
\* packed << k and packed >> k on 32 bits.
Shl(w, k) == {i + k : i \in {j \in w : j + k <= 31}}
Shr(w, k) == {i - k : i \in {j \in w : j >= k}}
BitAnd(a, b) == a \cap b
BitOr(a, b) == a \cup b
\* (1 << bits) - 1.
LowMask(bits) == 0 .. (bits - 1)

RECURSIVE WordVal(_)
\* The integer a word of at most 31 bits holds.
WordVal(w) ==
    IF w = {} THEN 0
    ELSE LET i == CHOOSE j \in w : TRUE IN Pow2(i) + WordVal(w \ {i})


(***************************************************************************)
(* Vectors and matrices of rationals.  mul(v, M) is the row vector v times *)
(* M, mul(M, v) is M times the column vector v.                            *)
(***************************************************************************)
RECURSIVE DotUpTo(_, _, _)
DotUpTo(u, v, k) ==
    IF k = 0 THEN R(0) ELSE RAdd(DotUpTo(u, v, k - 1), RMul(u[k], v[k]))
Dot(u, v) == DotUpTo(u, v, Len(u))

MulVM(v, M) == [j \in 1 .. Len(M[1]) |-> Dot(v, [i \in 1 .. Len(M) |-> M[i][j]])]
MulMV(M, v) == [i \in 1 .. Len(M) |-> Dot(M[i], v)]
\* An integer vector or matrix as rationals.
RVec(v) == [i \in 1 .. Len(v) |-> R(v[i])]
RMat(m) == [i \in 1 .. Len(m) |-> RVec(m[i])]

(***************************************************************************)
(* constants.hlsl                                                          *)
(***************************************************************************)
\* sqrt(n) for a perfect square n.
ExactSqrt(n) == CHOOSE r \in 0 .. n : r * r = n

\* RADIUS_SIGMA is sqrt(8): its square.
RADIUS_SIGMA_SQUARED == 8
\* RADIUS_SIGMA / sqrt(2) = sqrt(8 / 2).
RADIUS_SIGMA_OVER_SQRT_2 == ExactSqrt(RADIUS_SIGMA_SQUARED \div 2)
CUTOFF_RADIUS_SIGMA_SQUARED_OVER_2 ==
    RADIUS_SIGMA_OVER_SQRT_2 * RADIUS_SIGMA_OVER_SQRT_2

DISTANCE_PRECISION == 16
\* A scale that does not leave the top key to the sentinel.
DISTANCE_SCALE_full == Pow2(16) - 1
\* half((1 << DISTANCE_PRECISION) - 2), taken exactly like every other real.
DISTANCE_SCALE == Pow2(DISTANCE_PRECISION) - 2
DISTANCE_NOT_VISIBLE == Pow2(DISTANCE_PRECISION) - 1

(***************************************************************************)
(* unpacking.hlsl                                                          *)
(***************************************************************************)
\* The value of the float16 in the low half of a word; an all-ones exponent
\* is an infinity or a NaN.
f16tof32(w) ==
    LET sign == IF 15 \in w THEN -1 ELSE 1
        ex   == WordVal(Shr(BitAnd(w, 10 .. 14), 10))
        man  == WordVal(BitAnd(w, 0 .. 9))
    IN  IF ex = 31 THEN NonFinite
        ELSE IF ex = 0 THEN RNorm(sign * man, Pow2(24))
        ELSE IF ex >= 25 THEN RNorm(sign * (1024 + man) * Pow2(ex - 25), 1)
        ELSE RNorm(sign * (1024 + man), Pow2(25 - ex))

\* No mask whenever the field starts at bit 0.
unpack_f16_unmasked_at_0(s, offset) == offset = 0
\* The test of the branch that shifts without masking.
unpack_f16_unmasked(s, offset) == s = 1 /\ offset = 0

unpack_f16(s, e, m, packed, offset) ==
    LET shift == 15 - e - m
        mask  == Shl(LowMask(s + e + m), shift)
    IN  IF unpack_f16_unmasked(s, offset)
        THEN f16tof32(Shl(packed, shift))
        ELSE IF offset < shift
        THEN f16tof32(BitAnd(Shl(packed, shift - offset), mask))
        ELSE f16tof32(BitAnd(Shr(packed, offset - shift), mask))

\* A mask one bit too wide.
unpack_unorm_wide(bits, packed, offset) ==
    LET Mask == LowMask(bits + 1)
    IN  IF offset = 0
        THEN WordVal(BitAnd(packed, Mask))
        ELSE WordVal(BitAnd(Shr(packed, offset), Mask))

unpack_unorm(bits, packed, offset) ==
    LET Mask == LowMask(bits)
    IN  IF offset = 0
        THEN WordVal(BitAnd(packed, Mask))
        ELSE WordVal(BitAnd(Shr(packed, offset), Mask))

\* packedCovMat is <<x, y>>.
unpack_cov_mat(packedCovMat) ==
    LET xx == unpack_f16(0, 5, 5, packedCovMat[2], 22)
        xy == unpack_f16(1, 5, 5, packedCovMat[2], 11)
        xz == unpack_f16(1, 5, 5, packedCovMat[2], 0)
        yy == unpack_f16(0, 5, 5, packedCovMat[1], 22)
        yz == unpack_f16(1, 5, 5, packedCovMat[1], 11)
        zz == unpack_f16(0, 5, 6, packedCovMat[1], 0)
    IN  <<<<xx, xy, xz>>, <<xy, yy, yz>>, <<xz, yz, zz>>>>

unpack_pos(packed, scale, offset) ==
    LET x == unpack_unorm(11, packed, 0)
        y == unpack_unorm(11, packed, 11)
        z == unpack_unorm(10, packed, 22)
    IN  <<RAdd(RMul(R(x), scale[1]), offset[1]),
          RAdd(RMul(R(y), scale[2]), offset[2]),
          RAdd(RMul(R(z), scale[3]), offset[3]),
          R(1)>>


(***************************************************************************)
(* The host's shader constants and required functions, and the scenes.     *)
(* Local space is world space.  View space has x right, y up, z forward.   *)
(***************************************************************************)
\* A view down the local z axis with a 90 degree field of view, near plane
\* 1 and far plane 3: clip = (2x, 2y, 3z - 3, 2z).
CamForward ==
    [local_to_world    |-> RMat(<<<<1, 0, 0>>, <<0, 1, 0>>, <<0, 0, 1>>>>),
     local_to_view     |-> RMat(<<<<1, 0, 0>>, <<0, 1, 0>>, <<0, 0, 1>>,
                                  <<0, 0, 0>>>>),
     world_to_clip     |-> RMat(<<<<2, 0, 0, 0>>, <<0, 2, 0, 0>>,
                                  <<0, 0, 3, 2>>, <<0, 0, -3, 0>>>>),
     two_focal_length  |-> RVec(<<2, 2>>),
     render_resolution |-> RVec(<<2, 2>>),
     pos_scale_cm      |-> RVec(<<1, 1, 1>>),
     pos_min_cm        |-> RVec(<<-2, -2, -1>>)]

\* The same eye rolled by a quarter turn (view x = local y, view y = -local
\* x), with a reversed-z projection without far plane: clip = (x, y, 1, z)
\* of the view position.
CamRolled ==
    [local_to_world    |-> RMat(<<<<1, 0, 0>>, <<0, 1, 0>>, <<0, 0, 1>>>>),
     local_to_view     |-> RMat(<<<<0, -1, 0>>, <<1, 0, 0>>, <<0, 0, 1>>,
                                  <<0, 0, 0>>>>),
     world_to_clip     |-> RMat(<<<<0, -1, 0, 0>>, <<1, 0, 0, 0>>,
                                  <<0, 0, 0, 1>>, <<0, 0, 1, 0>>>>),
     two_focal_length  |-> RVec(<<4, 2>>),
     render_resolution |-> RVec(<<4, 2>>),
     pos_scale_cm      |-> RVec(<<1, 1, 1>>),
     pos_min_cm        |-> RVec(<<-2, -2, -1>>)]

Cameras == {CamForward, CamRolled}

\* world_to_clip(pos_world): the host's projection of a world position.
world_to_clip(cam, pos_world) ==
    MulVM(<<pos_world[1], pos_world[2], pos_world[3], R(1)>>, cam.world_to_clip)

\* local_to_clip: the host's product of local_to_world and the projection.
local_to_clip(cam) ==
    [i \in 1 .. 4 |->
        IF i <= 3 THEN MulVM(cam.local_to_world[i] \o <<R(0)>>, cam.world_to_clip)
        ELSE cam.world_to_clip[4]]

\* A word from three fields at bit offsets 0, 11 and 22.
Fields(f0, f11, f22) ==
    BitOr(ToWord(f0), BitOr(Shl(ToWord(f11), 11), Shl(ToWord(f22), 22)))

\* The packed x11y11z10 positions of the scenes; with pos_min_cm and
\* pos_scale_cm above the fields (x, y, z) are the point (x-2, y-2, z-1).
PosAxis1  == Fields(2, 2, 2)
PosAxis2  == Fields(2, 2, 3)
PosAxis3  == Fields(2, 2, 4)
PosFar    == Fields(2, 2, 5)
PosEye    == Fields(2, 2, 1)
PosBehind == Fields(2, 2, 0)
PosSide   == Fields(4, 2, 2)
PosOff    == Fields(3, 2, 3)

\* Packed covariances <<x, y>>: x holds zz (5e6m), yz, yy and y holds xz,
\* xy, xx.  The 5e5m fields of 0.5, 1, 2 and 4 are 448, 480, 512 and 544,
\* the 5e6m field of 1 is 960, and a set bit 10 of a signed field negates.
CovIdentity  == <<Fields(960, 0, 480), Fields(0, 0, 480)>>
CovTall      == <<Fields(960, 0, 544), Fields(0, 0, 480)>>
CovWide      == <<Fields(960, 0, 480), Fields(0, 0, 544)>>
CovSkew      == <<Fields(960, 0, 512), Fields(0, 480, 512)>>
CovSurd      == <<Fields(960, 0, 512), Fields(0, 480, 480)>>
CovIndefinite == <<Fields(960, 0, 480), Fields(0, 512, 480)>>
CovTilted    == <<Fields(960, 480 + 1024, 512), Fields(448, 0, 480)>>

Red       == <<R(1), R(0), R(0), R(1)>>
HalfGreen == <<R(0), R(1), R(0), <<1, 2>>>>
ClearBlue == <<R(0), R(0), R(1), R(0)>>

\* The catalogue of splats; a scene is a run of it, taken cyclically.
Catalogue ==
    <<[pos |-> PosAxis2,  cov |-> CovIdentity,   color |-> Red],
      [pos |-> PosAxis1,  cov |-> CovSkew,       color |-> HalfGreen],
      [pos |-> PosEye,    cov |-> CovTilted,     color |-> Red],
      [pos |-> PosBehind, cov |-> CovIndefinite, color |-> HalfGreen],
      [pos |-> PosSide,   cov |-> CovTall,       color |-> ClearBlue],
      [pos |-> PosAxis3,  cov |-> CovTall,       color |-> Red],
      [pos |-> PosOff,    cov |-> CovSurd,       color |-> HalfGreen],
      [pos |-> PosFar,    cov |-> CovWide,       color |-> ClearBlue]>>

\* The scene of n splats that starts at entry first of the catalogue.
Scene(first, n) ==
    [i \in 0 .. n - 1 |-> Catalogue[((first + i) % Len(Catalogue)) + 1]]

(***************************************************************************)
(* The state: the host's constants and read-only buffers, the buffers the  *)
(* kernels write, and the progress of the frame.                           *)
(***************************************************************************)
VARIABLES
    num_splats,   \* shader constant
    cam,          \* the remaining shader constants and host functions
    positions,    \* Buffer<uint>
    covariances,  \* Buffer<uint2>
    colors,       \* Buffer<half4>
    transforms,   \* RWBuffer<half4>
    indices,      \* RWBuffer<uint>
    distances,    \* RWBuffer<uint>
    ranT,         \* thread ids of the transform dispatch that have run
    ranD,         \* thread ids of the distance dispatch that have run
    sorted,       \* the external sort of (indices, distances) has run
    vs_out,       \* the outputs of the latest vertex shader invocation
    ps_out        \* the latest pixel shader invocation on its primitive

\* A call of one of the functions of the shaders on its own, outside the
\* frame: the function with its arguments, and what it returned.
VARIABLES
    call,
    ret

\* The PLY parser: the members of a SplatParserPly, the Metadata of its
\* caller, and the progress of the call that is running.
VARIABLES
    format,          \* PlyFormat format
    layout,          \* std::unordered_map<Property, PropertyDesc> layout
    ply_num_splats,  \* size_t num_splats
    splat_size,      \* size_t splat_size
    buffer,          \* std::span<const uint8_t> buffer
    metadata,        \* the Metadata& given to parse_metadata
    header_text,     \* parse_header: the header text left
    ply_pc,          \* "idle", "header_loop" or "data_loop"
    iterations,      \* parse_header: iterations of its loop so far
    splat_index,     \* parse_data: i
    parsed,          \* parse_data: the parse_splat calls made so far
    ncalls           \* parse_metadata calls so far

frame == <<num_splats, cam, positions, covariances, colors, transforms,
           indices, distances, ranT, ranD, sorted, vs_out, ps_out>>
calls == <<call, ret>>
NoCall == <<>>
ply == <<format, layout, ply_num_splats, splat_size, buffer, metadata,
         header_text, ply_pc, iterations, splat_index, parsed, ncalls>>
offFrame == <<calls, ply>>
vars == <<frame, calls, ply>>

\* size_t: a 64-bit unsigned integer, as four 16-bit limbs, the least
\* significant first.
LimbBase == 65536
SizeLimbs == 4
size_t(n) ==
    <<n % LimbBase, (n \div LimbBase) % LimbBase, 0, 0>>
SizeZero == size_t(0)

\* The parser before its first call: the member initialisers of
\* SplatParserPly, an empty Metadata of the caller, and no call running.
EmptyMap == <<>>
PlyIdle ==
    /\ format = "Invalid"
    /\ layout = EmptyMap
    /\ ply_num_splats = SizeZero
    /\ splat_size = 0
    /\ buffer = [bytes |-> <<>>, offset |-> 0]
    /\ metadata = [properties |-> EmptyMap, num_splats |-> SizeZero]
    /\ header_text = <<>>
    /\ ply_pc = "idle"
    /\ iterations = 0
    /\ splat_index = 0
    /\ parsed = <<>>
    /\ ncalls = 0


\* A dispatch runs whole thread groups.
NumThreads(n) ==
    ((n + THREAD_GROUP_SIZE_X - 1) \div THREAD_GROUP_SIZE_X) * THREAD_GROUP_SIZE_X
ThreadIds == 0 .. NumThreads(num_splats) - 1
SplatIds == 0 .. num_splats - 1

\* What a slot of an output buffer holds before the frame's dispatch.
Unwritten == -1
UnwrittenTransform == <<>>
NoVertex == [in_id |-> -1]
NoPixel == <<>>

\* A read of a Buffer: a read past its end gives zero.
load_position(i) == IF i \in DOMAIN positions THEN positions[i] ELSE {}
load_covariance(i) ==
    IF i \in DOMAIN covariances THEN covariances[i] ELSE <<{}, {}>>

(***************************************************************************)
(* The distance kernel.                                                    *)
(***************************************************************************)
\* pos_clip of the distance kernel for a packed position.
distance_pos_clip(packed) ==
    LET pos_local == unpack_pos(packed, cam.pos_scale_cm, cam.pos_min_cm)
    IN  MulVM(pos_local, local_to_clip(cam))

\* The test without its far plane.
inside_frustum_xy(pos_clip) ==
    ~(\/ RLt(pos_clip[1], RNeg(pos_clip[4]))
      \/ RLt(pos_clip[4], pos_clip[1])
      \/ RLt(pos_clip[2], RNeg(pos_clip[4]))
      \/ RLt(pos_clip[4], pos_clip[2]))

inside_frustum(pos_clip) ==
    ~(\/ RLt(pos_clip[1], RNeg(pos_clip[4]))
      \/ RLt(pos_clip[4], pos_clip[1])
      \/ RLt(pos_clip[2], RNeg(pos_clip[4]))
      \/ RLt(pos_clip[4], pos_clip[2])
      \/ RLt(pos_clip[4], pos_clip[3]))

\* The key with the depth reversed.
visible_distance_reversed(pos_clip) ==
    RTrunc(RMul(RSub(R(1), saturate(RDiv(pos_clip[3], pos_clip[4]))),
                R(DISTANCE_SCALE)))

\* uint(saturate(pos_clip.z / pos_clip.w) * DISTANCE_SCALE)
visible_distance(pos_clip) ==
    RTrunc(RMul(saturate(RDiv(pos_clip[3], pos_clip[4])), R(DISTANCE_SCALE)))

distance_of(pos_clip) ==
    IF inside_frustum(pos_clip)
    THEN visible_distance(pos_clip)
    ELSE DISTANCE_NOT_VISIBLE

\* No bounds check.
in_range_always(splat_id) == TRUE

\* The bounds check of both kernels: the invocation returns at once when it
\* fails.
in_range(splat_id) == splat_id < num_splats

\* Every invocation writes slot 0.
distance_slot_shared(dispatch_thread_id) == 0

\* The slot of indices[] and distances[] the invocation writes.
distance_slot(dispatch_thread_id) == dispatch_thread_id

\* Only a splat inside the frustum is stored.
distance_stores_visible(pos_clip) ==
    ~(\/ RLt(pos_clip[1], RNeg(pos_clip[4]))
      \/ RLt(pos_clip[4], pos_clip[1])
      \/ RLt(pos_clip[2], RNeg(pos_clip[4]))
      \/ RLt(pos_clip[4], pos_clip[2])
      \/ RLt(pos_clip[4], pos_clip[3]))

\* Whether the invocation stores its pair at all.
distance_stores(pos_clip) == TRUE

DistanceMain(tid) ==
    /\ tid \in ThreadIds \ ranD
    /\ ~sorted
    /\ ranD' = ranD \cup {tid}
    /\ IF in_range(tid)
       THEN LET pos_clip == distance_pos_clip(load_position(tid))
                index    == tid
                distance == distance_of(pos_clip)
            IN  IF distance_stores(pos_clip)
                THEN /\ indices' = [indices EXCEPT ![distance_slot(tid)] = index]
                     /\ distances' =
                            [distances EXCEPT ![distance_slot(tid)] = distance]
                ELSE UNCHANGED <<indices, distances>>
       ELSE UNCHANGED <<indices, distances>>
    /\ UNCHANGED <<num_splats, cam, positions, covariances, colors, transforms,
                   ranT, sorted, vs_out, ps_out>>
    /\ UNCHANGED offFrame

(***************************************************************************)
(* Exact square roots.  A surd <<a, b, D>> is the real a + b * sqrt(D) for *)
(* rationals a, b and D >= 0; b = 0 goes with D = 0, and sqrt(D) is folded *)
(* into a when D is the square of a rational.  A root <<s, q>> is the real *)
(* s * sqrt(q) for a sign s in {-1, 0, 1} and a surd q >= 0.               *)
(***************************************************************************)
IsSquare(n) == \E r \in 0 .. n : r * r = n
IsRSquare(p) == p[1] >= 0 /\ IsSquare(p[1]) /\ IsSquare(p[2])
RSqrt(p) == <<ExactSqrt(p[1]), ExactSqrt(p[2])>>

SurdNaN == <<NonFinite, NonFinite, NonFinite>>
IsFiniteSurd(x) == IsFinite(x[1])
\* The surd a + b * sqrt(D) in its canonical form.
Surd(a, b, D) ==
    IF ~(IsFinite(a) /\ IsFinite(b) /\ IsFinite(D)) THEN SurdNaN
    ELSE IF b[1] = 0 \/ D[1] = 0 THEN <<a, R(0), R(0)>>
    ELSE IF IsRSquare(D) THEN <<RAdd(a, RMul(b, RSqrt(D))), R(0), R(0)>>
    ELSE <<a, b, D>>
SurdOf(p) == Surd(p, R(0), R(0))
\* The D of an operation on two surds of the same field.
SurdD(x, y) == IF x[2][1] # 0 THEN x[3] ELSE y[3]
SAdd(x, y) == Surd(RAdd(x[1], y[1]), RAdd(x[2], y[2]), SurdD(x, y))
SNeg(x) == <<RNeg(x[1]), RNeg(x[2]), x[3]>>
SSub(x, y) == SAdd(x, SNeg(y))
SMul(x, y) ==
    Surd(RAdd(RMul(x[1], y[1]), RMul(RMul(x[2], y[2]), SurdD(x, y))),
         RAdd(RMul(x[1], y[2]), RMul(x[2], y[1])),
         SurdD(x, y))
\* The sign of a + b * sqrt(D).
SSign(x) ==
    LET sa == RSign(x[1])
        sb == RSign(x[2])
        a2 == RMul(x[1], x[1])
        b2D == RMul(RMul(x[2], x[2]), x[3])
    IN  IF sb = 0 THEN sa
        ELSE IF sa = 0 \/ sa = sb THEN sb
        ELSE IF RLt(b2D, a2) THEN sa
        ELSE IF RLt(a2, b2D) THEN sb
        ELSE 0
\* x / y for y # 0, by the conjugate of y.
SDiv(x, y) ==
    LET n == RSub(RMul(y[1], y[1]), RMul(RMul(y[2], y[2]), y[3]))
        c == <<RDiv(y[1], n), RNeg(RDiv(y[2], n)), y[3]>>
    IN  SMul(x, c)
\* sqrt of a rational: NaN below zero.
SSqrtR(p) ==
    IF ~IsFinite(p) \/ p[1] < 0 THEN SurdNaN ELSE Surd(R(0), R(1), p)

RootNaN == <<0, SurdNaN>>
IsFiniteRoot(r) == IsFiniteSurd(r[2])
RootZero == <<0, SurdOf(R(0))>>
\* The root that is the surd x.
RootOf(x) ==
    IF ~IsFiniteSurd(x) THEN RootNaN ELSE <<SSign(x), SMul(x, x)>>
\* sqrt(x): NaN below zero.
RootSqrt(x) ==
    IF ~IsFiniteSurd(x) \/ SSign(x) < 0 THEN RootNaN ELSE <<SSign(x), x>>
RootMul(r, t) ==
    IF ~(IsFiniteRoot(r) /\ IsFiniteRoot(t)) THEN RootNaN
    ELSE <<r[1] * t[1], SMul(r[2], t[2])>>
RootNeg(r) == <<-r[1], r[2]>>
\* r / x for a root r and a surd x: a zero divisor gives an infinity or NaN.
RootDivS(r, x) ==
    IF ~(IsFiniteRoot(r) /\ IsFiniteSurd(x)) \/ SSign(x) = 0 THEN RootNaN
    ELSE <<r[1] * SSign(x), SDiv(r[2], SMul(x, x))>>

\* normalize(v) = v / sqrt(dot(v, v)) of a vector of two surds: the zero
\* vector gives NaN.
normalize(v) ==
    LET d == SAdd(SMul(v[1], v[1]), SMul(v[2], v[2]))
    IN  IF ~IsFiniteSurd(d) \/ SSign(d) = 0 THEN <<RootNaN, RootNaN>>
        ELSE <<<<SSign(v[1]), SDiv(SMul(v[1], v[1]), d)>>,
               <<SSign(v[2]), SDiv(SMul(v[2], v[2]), d)>>>>

(***************************************************************************)
(* The transform kernel.                                                   *)
(***************************************************************************)
transform_pos_view(packed) ==
    LET pos_local == unpack_pos(packed, cam.pos_scale_cm, cam.pos_min_cm)
    IN  MulVM(pos_local, cam.local_to_view)

\* A row of J * W: column col of W plus scale times column 3 of W.
jw_row(W, col, scale) ==
    <<RAdd(W[1][col], RMul(scale, W[1][3])),
      RAdd(W[2][col], RMul(scale, W[2][3])),
      RAdd(W[3][col], RMul(scale, W[3][3]))>>

\* <<sig_p_00, sig_p_01_10, sig_p_11>> from the rows of J * W.
sig_p_of_jw(jw_0, jw_1, sig) ==
    <<Dot(MulVM(jw_0, sig), jw_0),
      Dot(MulVM(jw_0, sig), jw_1),
      Dot(MulVM(jw_1, sig), jw_1)>>

\* The projected covariance of a splat at pos_view with covariance sig;
\* scale_x and scale_y are -pos_view.x / pos_view.z and -pos_view.y /
\* pos_view.z.
sig_p_at(pos_view, sig) ==
    sig_p_of_jw(
        jw_row(cam.local_to_view, 1, RDiv(RNeg(pos_view[1]), pos_view[3])),
        jw_row(cam.local_to_view, 2, RDiv(RNeg(pos_view[2]), pos_view[3])),
        sig)

sig_p(packed, packedCovMat) ==
    sig_p_at(transform_pos_view(packed), unpack_cov_mat(packedCovMat))

\* sig_p_00 * sig_p_11 + sig_p_01_10 * sig_p_01_10
det_of_plus(sp) == RAdd(RMul(sp[1], sp[3]), RMul(sp[2], sp[2]))
det_of(sp) == RSub(RMul(sp[1], sp[3]), RMul(sp[2], sp[2]))
trace_of(sp) == RAdd(sp[1], sp[3])
\* trace * trace - 2 * det
disc_of_two_det(trace, det) == RSub(RMul(trace, trace), RMul(R(2), det))
\* trace * trace - 4 * det
disc_of(trace, det) == RSub(RMul(trace, trace), RMul(R(4), det))
sqrt_disc_of(sp) == SSqrtR(disc_of(trace_of(sp), det_of(sp)))
\* float2(trace + sqrt_disc, trace - sqrt_disc)
two_lmb_from(trace, sqrt_disc) ==
    <<SAdd(SurdOf(trace), sqrt_disc), SSub(SurdOf(trace), sqrt_disc)>>
two_lmb_of(sp) == two_lmb_from(trace_of(sp), sqrt_disc_of(sp))
\* The vector the kernel normalizes: (sig_p_01_10, two_lmb.x / 2 - sig_p_00).
v_0_arg_from(sp, two_lmb) ==
    <<SurdOf(sp[2]), SSub(SMul(two_lmb[1], SurdOf(<<1, 2>>)), SurdOf(sp[1]))>>
v_0_arg(sp) == v_0_arg_from(sp, two_lmb_of(sp))

\* two_focal_length / pos_view.z * sqrt(two_lmb)
scale_of(pos_view, two_lmb) ==
    <<RootMul(RootOf(SurdOf(RDiv(cam.two_focal_length[1], pos_view[3]))),
              RootSqrt(two_lmb[1])),
      RootMul(RootOf(SurdOf(RDiv(cam.two_focal_length[2], pos_view[3]))),
              RootSqrt(two_lmb[2]))>>

\* half4(v_0.x, -v_0.y, v_0.y, v_0.x) * scale.xyxy
half4_of(v_0, scale) ==
    <<RootMul(v_0[1], scale[1]),
      RootMul(RootNeg(v_0[2]), scale[2]),
      RootMul(v_0[2], scale[1]),
      RootMul(v_0[1], scale[2])>>

transform_of_sig_p(pos_view, sp) ==
    half4_of(normalize(v_0_arg(sp)), scale_of(pos_view, two_lmb_of(sp)))

transform_at(pos_view, sig) ==
    transform_of_sig_p(pos_view, sig_p_at(pos_view, sig))

\* The half4 the invocation stores: four roots.
transform_of(packed, packedCovMat) ==
    transform_at(transform_pos_view(packed), unpack_cov_mat(packedCovMat))

\* The slot of transforms[] the invocation writes.
transform_slot(splat_id) == splat_id

TransformMain(tid) ==
    /\ tid \in ThreadIds \ ranT
    /\ ranT' = ranT \cup {tid}
    /\ IF in_range(tid)
       THEN transforms' =
                [transforms EXCEPT ![transform_slot(tid)] =
                    transform_of(load_position(tid), load_covariance(tid))]
       ELSE UNCHANGED transforms
    /\ UNCHANGED <<num_splats, cam, positions, covariances, colors, indices,
                   distances, ranD, sorted, vs_out, ps_out>>
    /\ UNCHANGED offFrame

(***************************************************************************)
(* The external sort of the (index, distance) pairs, which is not part of  *)
(* the shaders: ascending by distance, ties in any order.                  *)
(***************************************************************************)
ExternalSort ==
    /\ ranD = ThreadIds
    /\ ~sorted
    /\ sorted' = TRUE
    /\ \E perm \in Permutations(SplatIds) :
          /\ \A i, j \in SplatIds :
                i < j => distances[perm[i]] <= distances[perm[j]]
          /\ indices' = [i \in ThreadIds |->
                IF i \in SplatIds THEN indices[perm[i]] ELSE indices[i]]
          /\ distances' = [i \in ThreadIds |->
                IF i \in SplatIds THEN distances[perm[i]] ELSE distances[i]]
    /\ UNCHANGED <<num_splats, cam, positions, covariances, colors, transforms,
                   ranT, ranD, vs_out, ps_out>>
    /\ UNCHANGED offFrame

(***************************************************************************)
(* The vertex shader.  A sum of roots is the sequence of its non-zero      *)
(* terms; <<RootNaN>> is a non-finite sum.                                 *)
(***************************************************************************)
SumNaN == <<RootNaN>>
SumZero == <<>>
IsFiniteSum(l) == \A i \in 1 .. Len(l) : IsFiniteRoot(l[i])
SumOfRoot(r) ==
    IF ~IsFiniteRoot(r) THEN SumNaN ELSE IF r[1] = 0 THEN SumZero ELSE <<r>>
SumOfR(p) == SumOfRoot(RootOf(SurdOf(p)))
SumAdd(a, b) == IF IsFiniteSum(a) /\ IsFiniteSum(b) THEN a \o b ELSE SumNaN
\* The sum l times the rational p.
SumScale(l, p) ==
    IF ~(IsFiniteSum(l) /\ IsFinite(p)) THEN SumNaN
    ELSE IF p[1] = 0 THEN SumZero
    ELSE [i \in 1 .. Len(l) |-> RootMul(l[i], RootOf(SurdOf(p)))]

corners ==
    <<<<-RADIUS_SIGMA_OVER_SQRT_2, -RADIUS_SIGMA_OVER_SQRT_2>>,
      <<RADIUS_SIGMA_OVER_SQRT_2, -RADIUS_SIGMA_OVER_SQRT_2>>,
      <<-RADIUS_SIGMA_OVER_SQRT_2, RADIUS_SIGMA_OVER_SQRT_2>>,
      <<RADIUS_SIGMA_OVER_SQRT_2, -RADIUS_SIGMA_OVER_SQRT_2>>,
      <<-RADIUS_SIGMA_OVER_SQRT_2, RADIUS_SIGMA_OVER_SQRT_2>>,
      <<RADIUS_SIGMA_OVER_SQRT_2, RADIUS_SIGMA_OVER_SQRT_2>>>>
\* corners[in_id % 4]
corner_of_mod_4(in_id) == RVec(corners[(in_id % 4) + 1])
\* corners[in_id % 6]
corner_of(in_id) == RVec(corners[(in_id % 6) + 1])

\* indices[in_id / 6].x
vertex_splat_id(ind, in_id) == ind[in_id \div 6]

\* pos_clip of the vertex shader for a packed position.
vertex_pos_clip(packed) ==
    LET pos_local == unpack_pos(packed, cam.pos_scale_cm, cam.pos_min_cm)
        pos_world == MulVM(<<pos_local[1], pos_local[2], pos_local[3]>>,
                           cam.local_to_world)
    IN  world_to_clip(cam, pos_world)

\* The test against abs(pos_clip.w).
outside_frustum_abs_w(pos_clip) ==
    LET w == IF RSign(pos_clip[4]) < 0 THEN RNeg(pos_clip[4]) ELSE pos_clip[4]
    IN  \/ RLt(pos_clip[1], RNeg(w))
        \/ RLt(w, pos_clip[1])
        \/ RLt(pos_clip[2], RNeg(w))
        \/ RLt(w, pos_clip[2])
        \/ RLt(pos_clip[4], pos_clip[3])

outside_frustum(pos_clip) ==
    \/ RLt(pos_clip[1], RNeg(pos_clip[4]))
    \/ RLt(pos_clip[4], pos_clip[1])
    \/ RLt(pos_clip[2], RNeg(pos_clip[4]))
    \/ RLt(pos_clip[4], pos_clip[2])
    \/ RLt(pos_clip[4], pos_clip[3])

ZeroPosition == <<SumZero, SumZero, R(0), R(0)>>

\* out_position of a vertex of a splat inside the frustum, with t the
\* splat's transform.
expanded_position(pos_clip, t, in_id) ==
    LET c      == corner_of(in_id)
        mulMV  == <<SumAdd(SumScale(SumOfRoot(t[1]), c[1]),
                           SumScale(SumOfRoot(t[2]), c[2])),
                    SumAdd(SumScale(SumOfRoot(t[3]), c[1]),
                           SumScale(SumOfRoot(t[4]), c[2]))>>
        res    == cam.render_resolution
        offset == <<SumScale(mulMV[1], RDiv(R(1), res[1])),
                    SumScale(mulMV[2], RDiv(R(1), res[2]))>>
    IN  <<SumAdd(SumOfR(pos_clip[1]), SumScale(offset[1], pos_clip[4])),
          SumAdd(SumOfR(pos_clip[2]), SumScale(offset[2], pos_clip[4])),
          pos_clip[3], pos_clip[4]>>

\* out_position for the buffers ind (indices) and tr (transforms).
vertex_position(ind, tr, in_id) ==
    LET splat_id == vertex_splat_id(ind, in_id)
        pos_clip == vertex_pos_clip(load_position(splat_id))
    IN  IF outside_frustum(pos_clip)
        THEN ZeroPosition
        ELSE expanded_position(pos_clip, tr[splat_id], in_id)

\* What an output the shader returns without writing may hold.
Unassigned ==
    {[sig |-> <<R(0), R(0)>>, color |-> ClearBlue],
     [sig |-> <<R(1), R(-1)>>, color |-> Red]}

VertexIds == 0 .. 6 * num_splats - 1

\* The draw issues the vertex ids in ascending order, after both dispatches
\* and the sort.
VertexMain(in_id) ==
    /\ sorted
    /\ ranT = ThreadIds
    /\ in_id \in VertexIds
    /\ in_id = vs_out.in_id + 1
    /\ LET splat_id == vertex_splat_id(indices, in_id)
           pos_clip == vertex_pos_clip(load_position(splat_id))
       IN  IF outside_frustum(pos_clip)
           THEN \E u \in Unassigned :
                   vs_out' = [in_id |-> in_id,
                              out_position |-> vertex_position(indices, transforms, in_id),
                              out_sig_div_sqrt_2 |-> u.sig,
                              out_color |-> u.color]
           ELSE vs_out' = [in_id |-> in_id,
                           out_position |-> vertex_position(indices, transforms, in_id),
                           out_sig_div_sqrt_2 |-> corner_of(in_id),
                           out_color |-> colors[splat_id]]
    /\ ps_out' = NoPixel
    /\ UNCHANGED <<num_splats, cam, positions, covariances, colors, transforms,
                   indices, distances, ranT, ranD, sorted>>
    /\ UNCHANGED offFrame

(***************************************************************************)
(* The pixel shader.  The rasterizer, which is not part of the shaders,    *)
(* runs it on the samples of a triangle once the triangle's third vertex   *)
(* is out, with sig_div_sqrt_2 interpolated between the three corners.  A  *)
(* triangle with a zero or non-finite position covers no sample.           *)
(***************************************************************************)
\* exp(d) for d = 0 .. 8 in thousandths.
exp_milli ==
    <<1000, 2718, 7389, 20086, 54598, 148413, 403429, 1096633, 2980958>>
exp(d) == RNorm(exp_milli[RTrunc(d) + 1], 1000)

\* The cutoff taken with <=.
alpha_gaussian_le(sig_sq_div_2, base_alpha) ==
    IF RLe(sig_sq_div_2, R(CUTOFF_RADIUS_SIGMA_SQUARED_OVER_2))
    THEN RDiv(base_alpha, exp(sig_sq_div_2))
    ELSE R(0)

\* alpha_gaussian
alpha_gaussian(sig_sq_div_2, base_alpha) ==
    IF RLt(sig_sq_div_2, R(CUTOFF_RADIUS_SIGMA_SQUARED_OVER_2))
    THEN RDiv(base_alpha, exp(sig_sq_div_2))
    ELSE R(0)

\* out_color
pixel_color(sig_div_sqrt_2, in_color) ==
    <<in_color[1], in_color[2], in_color[3],
      alpha_gaussian(Dot(sig_div_sqrt_2, sig_div_sqrt_2), in_color[4])>>

\* The interpolated sig_div_sqrt_2 of the samples: the grid points of the
\* quad, of which triangle (0, 1, 2) holds those with x + y <= 0 and
\* triangle (3, 4, 5) those with x + y >= 0.
QuadSamples ==
    {<<x, y>> : x \in -RADIUS_SIGMA_OVER_SQRT_2 .. RADIUS_SIGMA_OVER_SQRT_2,
                y \in -RADIUS_SIGMA_OVER_SQRT_2 .. RADIUS_SIGMA_OVER_SQRT_2}
TriangleSamples(in_id) ==
    IF in_id % 6 = 2 THEN {v \in QuadSamples : v[1] + v[2] <= 0}
    ELSE IF in_id % 6 = 5 THEN {v \in QuadSamples : v[1] + v[2] >= 0}
    ELSE {}

Rasterized ==
    /\ vs_out.in_id >= 0
    /\ vs_out.out_position # ZeroPosition
    /\ IsFiniteSum(vs_out.out_position[1])
    /\ IsFiniteSum(vs_out.out_position[2])

PixelMain(v) ==
    /\ Rasterized
    /\ v \in TriangleSamples(vs_out.in_id)
    /\ ps_out' = [sig_div_sqrt_2 |-> RVec(v),
                  in_color |-> vs_out.out_color,
                  out_color |-> pixel_color(RVec(v), vs_out.out_color)]
    /\ UNCHANGED <<num_splats, cam, positions, covariances, colors, transforms,
                   indices, distances, ranT, ranD, sorted, vs_out>>
    /\ UNCHANGED offFrame

(***************************************************************************)
(* The frame.                                                              *)
(***************************************************************************)
Init ==
    /\ num_splats \in 1 .. MaxSplats
    /\ cam \in Cameras
    /\ \E first \in 0 .. Len(Catalogue) - 1 :
          /\ positions = [i \in SplatIds |-> Scene(first, num_splats)[i].pos]
          /\ covariances = [i \in SplatIds |-> Scene(first, num_splats)[i].cov]
          /\ colors = [i \in SplatIds |-> Scene(first, num_splats)[i].color]
    /\ transforms = [i \in ThreadIds |-> UnwrittenTransform]
    /\ indices = [i \in ThreadIds |-> Unwritten]
    /\ distances = [i \in ThreadIds |-> Unwritten]
    /\ ranT = {}
    /\ ranD = {}
    /\ sorted = FALSE
    /\ vs_out = NoVertex
    /\ ps_out = NoPixel
    /\ call = NoCall
    /\ ret = NoCall
    /\ PlyIdle

Next ==
    \/ \E tid \in ThreadIds : TransformMain(tid)
    \/ \E tid \in ThreadIds : DistanceMain(tid)
    \/ ExternalSort
    \/ \E in_id \in VertexIds : VertexMain(in_id)
    \/ \E v \in QuadSamples : PixelMain(v)

Spec == Init /\ [][Next]_vars

(***************************************************************************)
(* The functions of unpacking.hlsl called on their own, one call a run.    *)
(* The frame is idle meanwhile.                                            *)
(***************************************************************************)
FrameIdle ==
    /\ num_splats = 1
    /\ cam = CamForward
    /\ positions = [i \in {0} |-> PosAxis2]
    /\ covariances = [i \in {0} |-> CovIdentity]
    /\ colors = [i \in {0} |-> Red]
    /\ transforms = [i \in {0} |-> UnwrittenTransform]
    /\ indices = [i \in {0} |-> Unwritten]
    /\ distances = [i \in {0} |-> Unwritten]
    /\ ranT = {}
    /\ ranD = {}
    /\ sorted = FALSE
    /\ vs_out = NoVertex
    /\ ps_out = NoPixel

\* The packed words of the calls: the words with one bit set, with one bit
\* clear, with none and with all, and the packed fields below.
Fields11 == {0, 1, 2, 1023, 1024, 2046, 2047}
Fields10 == {0, 1, 511, 512, 1023}
PackedPositions ==
    {Fields(x, y, z) : x \in Fields11, y \in Fields11, z \in Fields10}
EdgeWords ==
    {{b} : b \in WordBits} \cup {WordBits \ {b} : b \in WordBits}
        \cup {{}, WordBits}
\* pos_scale_cm and pos_min_cm of the calls.
PosScales == {RVec(<<1, 1, 1>>), <<R(2), R(3), <<1, 2>>>>}
PosOffsets == {RVec(<<0, 0, 0>>), RVec(<<-2, -2, -1>>)}

UnpackPos(packed, scale, offset) ==
    /\ call = NoCall
    /\ call' = [fn |-> "unpack_pos", packed |-> packed,
                scale |-> scale, offset |-> offset]
    /\ ret' = unpack_pos(packed, scale, offset)
    /\ UNCHANGED <<frame, ply>>

\* <<s, e, m, offset>> of the calls of unpack_cov_mat.
F16Layouts == {<<0, 5, 5, 22>>, <<1, 5, 5, 11>>, <<1, 5, 5, 0>>, <<0, 5, 6, 0>>}
PackedCovariances ==
    {Catalogue[c].cov[1] : c \in 1 .. Len(Catalogue)}
        \cup {Catalogue[c].cov[2] : c \in 1 .. Len(Catalogue)}

UnpackF16(l, packed) ==
    /\ call = NoCall
    /\ call' = [fn |-> "unpack_f16", s |-> l[1], e |-> l[2], m |-> l[3],
                packed |-> packed, offset |-> l[4]]
    /\ ret' = [value |-> unpack_f16(l[1], l[2], l[3], packed, l[4]),
               masked |-> ~unpack_f16_unmasked(l[1], l[4])]
    /\ UNCHANGED <<frame, ply>>

InitUnpack == FrameIdle /\ PlyIdle /\ call = NoCall /\ ret = NoCall

NextUnpack ==
    \/ \E packed \in PackedPositions \cup EdgeWords,
          scale \in PosScales, offset \in PosOffsets :
          UnpackPos(packed, scale, offset)
    \/ \E l \in F16Layouts, packed \in PackedCovariances \cup EdgeWords :
          UnpackF16(l, packed)

SpecUnpack == InitUnpack /\ [][NextUnpack]_vars

(***************************************************************************)
(* The eigen-decomposition of the transform kernel on its own, one         *)
(* projected covariance <<sig_p_00, sig_p_01_10, sig_p_11>> a run, for a   *)
(* splat at the view position (0, 0, 2).                                   *)
(***************************************************************************)
SigPDiagonal == {R(-1), R(0), <<1, 2>>, R(1), R(2), R(3)}
SigPOffDiagonal == {R(-2), R(-1), R(0), <<1, 2>>, R(1)}
ProjectPosView == RVec(<<0, 0, 2>>)

Project(sp) ==
    /\ call = NoCall
    /\ call' = [fn |-> "project", sig_p |-> sp]
    /\ ret' = [det       |-> det_of(sp),
               trace     |-> trace_of(sp),
               disc      |-> disc_of(trace_of(sp), det_of(sp)),
               sqrt_disc |-> sqrt_disc_of(sp),
               two_lmb   |-> two_lmb_of(sp),
               v_0_arg   |-> v_0_arg(sp),
               v_0       |-> normalize(v_0_arg(sp)),
               scale     |-> scale_of(ProjectPosView, two_lmb_of(sp)),
               transform |-> transform_of_sig_p(ProjectPosView, sp)]
    /\ UNCHANGED <<frame, ply>>

InitProject == FrameIdle /\ PlyIdle /\ call = NoCall /\ ret = NoCall

NextProject ==
    \E s00 \in SigPDiagonal, s01 \in SigPOffDiagonal, s11 \in SigPDiagonal :
        Project(<<s00, s01, s11>>)

SpecProject == InitProject /\ [][NextProject]_vars

(***************************************************************************)
(* splat_parsing.h and splat_ply_conversion.cpp: the properties of a splat *)
(* file and the check of its metadata.  A Metadata is a record of          *)
(* properties, a function from the properties present to their formats,    *)
(* and num_splats.                                                         *)
(***************************************************************************)
\* enum class Property
Property ==
    {"Ignore", "X", "Y", "Z", "RotationX", "RotationY", "RotationZ",
     "RotationW", "ScaleX", "ScaleY", "ScaleZ", "DCRed", "DCGreen", "DCBlue",
     "Opacity"}

\* The list without its last entry.
required_properties_short ==
    <<"X", "Y", "Z", "RotationX", "RotationY", "RotationZ", "RotationW",
      "ScaleX", "ScaleY", "ScaleZ", "DCRed", "DCGreen", "DCBlue">>
required_properties ==
    <<"X", "Y", "Z", "RotationX", "RotationY", "RotationZ", "RotationW",
      "ScaleX", "ScaleY", "ScaleZ", "DCRed", "DCGreen", "DCBlue", "Opacity">>

\* The places of the list whose property the map does not contain.
MissingPlaces(properties) ==
    {i \in 1 .. Len(required_properties) :
        required_properties[i] \notin DOMAIN properties}

\* What validate_metadata returns, and the property it logs as missing: the
\* first of the list that is absent.
validate_metadata(md) ==
    IF MissingPlaces(md.properties) = {}
    THEN [result |-> TRUE, logged |-> "none"]
    ELSE [result |-> FALSE,
          logged |-> required_properties[
              CHOOSE i \in MissingPlaces(md.properties) :
                  \A j \in MissingPlaces(md.properties) : i <= j]]

\* The property sets of the calls: all fourteen, all but one, all but two,
\* each with and without Property::Ignore, and none.
AllRequired == Property \ {"Ignore"}
PropertySets ==
    LET lacking == {AllRequired \ {a, b} : a, b \in AllRequired}
    IN  {AllRequired, {}} \cup lacking \cup {ps \cup {"Ignore"} : ps \in lacking}
            \cup {Property}

ValidateMetadata(ps) ==
    /\ call = NoCall
    /\ call' = [fn |-> "validate_metadata",
                metadata |-> [properties |-> [q \in ps |-> "F32"],
                              num_splats |-> 1]]
    /\ ret' = validate_metadata([properties |-> [q \in ps |-> "F32"],
                                 num_splats |-> 1])
    /\ UNCHANGED <<frame, ply>>

InitValidate == FrameIdle /\ PlyIdle /\ call = NoCall /\ ret = NoCall
NextValidate == \E ps \in PropertySets : ValidateMetadata(ps)
SpecValidate == InitValidate /\ [][NextValidate]_vars

(***************************************************************************)
(* splat_ply_parsing.h: the PLY parser.  A buffer is a sequence of bytes,  *)
(* and a std::string_view over it is the sequence of the bytes it views.   *)
(* Positions count from 0 as in the code; npos is the position no search   *)
(* finds.                                                                  *)
(***************************************************************************)
LF == 10
SPACE == 32
TAB == 9
npos == -1

\* const char* const whitespace_chars = " \t"
whitespace_chars == {SPACE, TAB}

\* The string literals of the parser, as bytes.
Str ==
    [ ply |-> <<112, 108, 121>>,  \* "ply"
      format |-> <<102, 111, 114, 109, 97, 116>>,  \* "format"
      ascii |-> <<97, 115, 99, 105, 105>>,  \* "ascii"
      \* "binary_big_endian"
      binary_big_endian |->
          <<98, 105, 110, 97, 114, 121, 95, 98, 105, 103, 95, 101, 110, 100, 105, 97, 110>>,
      \* "binary_little_endian"
      binary_little_endian |->
          <<98, 105, 110, 97, 114, 121, 95, 108, 105, 116, 116, 108, 101, 95, 101, 110, 100, 105, 97, 110>>,
      v1_0 |-> <<49, 46, 48>>,  \* "1.0"
      comment |-> <<99, 111, 109, 109, 101, 110, 116>>,  \* "comment"
      element |-> <<101, 108, 101, 109, 101, 110, 116>>,  \* "element"
      vertex |-> <<118, 101, 114, 116, 101, 120>>,  \* "vertex"
      property |-> <<112, 114, 111, 112, 101, 114, 116, 121>>,  \* "property"
      \* "end_header"
      end_header |-> <<101, 110, 100, 95, 104, 101, 97, 100, 101, 114>>,
      x |-> <<120>>,  \* "x"
      y |-> <<121>>,  \* "y"
      z |-> <<122>>,  \* "z"
      f_dc_0 |-> <<102, 95, 100, 99, 95, 48>>,  \* "f_dc_0"
      f_dc_1 |-> <<102, 95, 100, 99, 95, 49>>,  \* "f_dc_1"
      f_dc_2 |-> <<102, 95, 100, 99, 95, 50>>,  \* "f_dc_2"
      opacity |-> <<111, 112, 97, 99, 105, 116, 121>>,  \* "opacity"
      rot_0 |-> <<114, 111, 116, 95, 48>>,  \* "rot_0"
      rot_1 |-> <<114, 111, 116, 95, 49>>,  \* "rot_1"
      rot_2 |-> <<114, 111, 116, 95, 50>>,  \* "rot_2"
      rot_3 |-> <<114, 111, 116, 95, 51>>,  \* "rot_3"
      scale_0 |-> <<115, 99, 97, 108, 101, 95, 48>>,  \* "scale_0"
      scale_1 |-> <<115, 99, 97, 108, 101, 95, 49>>,  \* "scale_1"
      scale_2 |-> <<115, 99, 97, 108, 101, 95, 50>>,  \* "scale_2"
      float |-> <<102, 108, 111, 97, 116>>,  \* "float"
      float32 |-> <<102, 108, 111, 97, 116, 51, 50>> ]  \* "float32"

\* std::string_view::find(c), find_first_of, find_first_not_of (from a
\* position) and find_last_not_of.
LeastOf(S) == CHOOSE i \in S : \A j \in S : i <= j
GreatestOf(S) == CHOOSE i \in S : \A j \in S : j <= i
find(sv, c) ==
    LET at == {i \in 0 .. Len(sv) - 1 : sv[i + 1] = c}
    IN  IF at = {} THEN npos ELSE LeastOf(at)
find_first_of(sv, chars) ==
    LET at == {i \in 0 .. Len(sv) - 1 : sv[i + 1] \in chars}
    IN  IF at = {} THEN npos ELSE LeastOf(at)
find_first_not_of(sv, chars, pos) ==
    LET at == {i \in pos .. Len(sv) - 1 : sv[i + 1] \notin chars}
    IN  IF at = {} THEN npos ELSE LeastOf(at)
find_last_not_of(sv, chars) ==
    LET at == {i \in 0 .. Len(sv) - 1 : sv[i + 1] \notin chars}
    IN  IF at = {} THEN npos ELSE GreatestOf(at)
substr(sv, pos, n) == SubSeq(sv, pos + 1, pos + n)
remove_prefix(sv, n) == SubSeq(sv, n + 1, Len(sv))

\* std::nullopt, and an optional that holds a view.
nullopt == [has_value |-> FALSE]
Some(sv) == [has_value |-> TRUE, value |-> sv]

\* What std::move leaves in the std::string_view it is applied to.  A
\* string_view is trivially copyable: moving from it copies it and leaves
\* it as it was.
moved_from(sv) == sv

\* pop_line(text): the optional line returned and the text left.
pop_line(text) ==
    LET eol_idx == find(text, LF)
        line_out == substr(text, 0, eol_idx)
        start_idx == find_first_not_of(line_out, whitespace_chars, 0)
        end_idx == find_last_not_of(line_out, whitespace_chars)
    IN  IF eol_idx = npos
        THEN [line |-> Some(text), text |-> moved_from(text)]
        ELSE IF start_idx = npos
        THEN [line |-> nullopt, text |-> text]
        ELSE [line |-> Some(substr(line_out, start_idx, end_idx - start_idx + 1)),
              text |-> remove_prefix(text, eol_idx + 1)]

\* pop_token(line): the optional token returned, the line left, and whether
\* the call has undefined behaviour: remove_prefix(npos), when only
\* whitespace follows the token.
pop_token(line) ==
    LET start_idx == find_first_not_of(line, whitespace_chars, 0)
        whitespace_idx == find_first_of(line, whitespace_chars)
        next_token_idx == find_first_not_of(line, whitespace_chars, whitespace_idx)
    IN  IF start_idx # 0
        THEN [token |-> nullopt, line |-> line, undefined |-> FALSE]
        ELSE IF whitespace_idx = npos
        THEN [token |-> Some(line), line |-> moved_from(line), undefined |-> FALSE]
        ELSE IF next_token_idx = npos
        THEN [token |-> Some(substr(line, 0, whitespace_idx)), line |-> <<>>,
              undefined |-> TRUE]
        ELSE [token |-> Some(substr(line, 0, whitespace_idx)),
              line |-> remove_prefix(line, next_token_idx),
              undefined |-> FALSE]

\* format_map, property_map, type_map and type_size_map.
format_map ==
    (Str.ascii :> "ASCII") @@ (Str.binary_big_endian :> "BinaryBigEndian")
        @@ (Str.binary_little_endian :> "BinaryLittleEndian")
property_map ==
    (Str.x :> "X") @@ (Str.y :> "Y") @@ (Str.z :> "Z")
        @@ (Str.f_dc_0 :> "DCRed") @@ (Str.f_dc_1 :> "DCGreen")
        @@ (Str.f_dc_2 :> "DCBlue") @@ (Str.opacity :> "Opacity")
        @@ (Str.rot_0 :> "RotationW") @@ (Str.rot_1 :> "RotationX")
        @@ (Str.rot_2 :> "RotationY") @@ (Str.rot_3 :> "RotationZ")
        @@ (Str.scale_0 :> "ScaleX") @@ (Str.scale_1 :> "ScaleY")
        @@ (Str.scale_2 :> "ScaleZ")
type_map == (Str.float :> "F32") @@ (Str.float32 :> "F32")
type_size_map == [t \in {"F32"} |-> 4]

\* size_t arithmetic.
IsSmall(u) == u[3] = 0 /\ u[4] = 0 /\ u[2] < 16384
SmallOf(u) == u[1] + LimbBase * u[2]
\* u * m + a for small m and a: the four low limbs and the carry out of
\* them.
RECURSIVE MulAddLimbs(_, _, _, _)
MulAddLimbs(u, m, carry, i) ==
    IF i > SizeLimbs
    THEN [limbs |-> <<>>, carry |-> carry]
    ELSE LET t == u[i] * m + carry
             rest == MulAddLimbs(u, m, t \div LimbBase, i + 1)
         IN  [limbs |-> <<t % LimbBase>> \o rest.limbs, carry |-> rest.carry]
\* The product of a size_t and a small number, which wraps at 2^64.
size_mul(u, m) == MulAddLimbs(u, m, 0, 1).limbs
\* i < u for a small i.
small_lt(i, u) == ~IsSmall(u) \/ i < SmallOf(u)

\* std::from_chars(first, last, value) for a size_t: the digits at the
\* front of the token are read in base ten.  Without a digit the result is
\* an error (invalid_argument), with a value beyond 64 bits an error
\* (result_out_of_range), and on an error the value is not written.
Digits == 48 .. 57
DigitsLen(tok) ==
    LET stop == {i \in 1 .. Len(tok) : tok[i] \notin Digits}
    IN  IF stop = {} THEN Len(tok) ELSE LeastOf(stop) - 1
RECURSIVE ReadDigits(_, _, _, _)
ReadDigits(tok, i, n, acc) ==
    IF i > n
    THEN [ok |-> TRUE, value |-> acc]
    ELSE LET r == MulAddLimbs(acc, 10, tok[i] - 48, 1)
         IN  IF r.carry # 0
             THEN [ok |-> FALSE, value |-> acc]
             ELSE ReadDigits(tok, i + 1, n, r.limbs)
from_chars(tok) ==
    IF DigitsLen(tok) = 0
    THEN [ok |-> FALSE, value |-> SizeZero]
    ELSE ReadDigits(tok, 1, DigitsLen(tok), SizeZero)

\* add_property(property, type) on a layout and a splat size: whether the
\* property was added, and the layout and splat size left.
add_property(property, type, lay, size) ==
    IF property # "Ignore" /\ property \in DOMAIN lay
    THEN [ok |-> FALSE, layout |-> lay, splat_size |-> size]
    ELSE [ok |-> TRUE,
          layout |-> IF property = "Ignore" THEN lay
                     ELSE lay @@ (property :> [offset |-> size, type |-> type]),
          splat_size |-> size + type_size_map[type]]

\* parse_header up to its loop: the magic line and the format line of the
\* text.  The outcome is "false" (returned false), "undefined" (undefined
\* behaviour in pop_token) or "loop" (the header loop is entered); format
\* is the format written, or the one given when none was written.
header_preamble(text, fmt) ==
    LET magic == pop_line(text)
        fline == pop_line(magic.text)
        t1 == pop_token(fline.line.value)
        t2 == pop_token(t1.line)
        t3 == pop_token(t2.line)
        stop(outcome, f) == [outcome |-> outcome, format |-> f, text |-> fline.text]
    IN  IF ~magic.line.has_value THEN stop("false", fmt)
        ELSE IF magic.line.value # Str.ply THEN stop("false", fmt)
        ELSE IF ~fline.line.has_value THEN stop("false", fmt)
        ELSE IF t1.undefined THEN stop("undefined", fmt)
        ELSE IF ~t1.token.has_value THEN stop("false", fmt)
        ELSE IF t1.token.value # Str.format THEN stop("false", fmt)
        ELSE IF t2.undefined THEN stop("undefined", fmt)
        ELSE IF ~t2.token.has_value THEN stop("false", fmt)
        ELSE IF t2.token.value \notin DOMAIN format_map THEN stop("false", fmt)
        ELSE IF t3.undefined THEN stop("undefined", format_map[t2.token.value])
        ELSE IF ~t3.token.has_value THEN stop("false", format_map[t2.token.value])
        ELSE stop("loop", format_map[t2.token.value])

\* One iteration of the loop of parse_header on the text left, with the
\* members num_splats, layout and splat_size.  The outcome is "continue"
\* (the loop goes on), "true" (end_header), "false" or "undefined".
header_line(text, n_splats, lay, size) ==
    LET pl == pop_line(text)
        t1 == pop_token(pl.line.value)
        t2 == pop_token(t1.line)
        t3 == pop_token(t2.line)
        count == from_chars(t3.token.value)
        added == add_property(
                     IF t3.token.value \in DOMAIN property_map
                     THEN property_map[t3.token.value] ELSE "Ignore",
                     type_map[t2.token.value], lay, size)
        keep(outcome) ==
            [outcome |-> outcome, text |-> pl.text, num_splats |-> n_splats,
             layout |-> lay, splat_size |-> size]
    IN  IF ~pl.line.has_value THEN keep("false")
        ELSE IF t1.undefined THEN keep("undefined")
        ELSE IF ~t1.token.has_value THEN keep("false")
        ELSE IF t1.token.value = Str.comment THEN keep("continue")
        ELSE IF t1.token.value = Str.element
        THEN IF n_splats # SizeZero THEN keep("false")
             ELSE IF t2.undefined THEN keep("undefined")
             ELSE IF ~t2.token.has_value THEN keep("false")
             ELSE IF t2.token.value # Str.vertex THEN keep("false")
             ELSE IF t3.undefined THEN keep("undefined")
             ELSE IF ~t3.token.has_value THEN keep("false")
             ELSE IF ~count.ok THEN keep("false")
             ELSE IF count.value = SizeZero THEN keep("false")
             ELSE [keep("continue") EXCEPT !.num_splats = count.value]
        ELSE IF t1.token.value = Str.property
        THEN IF n_splats = SizeZero THEN keep("false")
             ELSE IF t2.undefined THEN keep("undefined")
             ELSE IF ~t2.token.has_value THEN keep("false")
             ELSE IF t2.token.value \notin DOMAIN type_map THEN keep("false")
             ELSE IF t3.undefined THEN keep("undefined")
             ELSE IF ~t3.token.has_value THEN keep("false")
             ELSE IF ~added.ok THEN keep("false")
             ELSE [keep("continue") EXCEPT !.layout = added.layout,
                                           !.splat_size = added.splat_size]
        ELSE IF t1.token.value = Str.end_header THEN keep("true")
        ELSE keep("false")

\* parse_metadata after parse_header has returned true: whether the bytes
\* left equal num_splats * splat_size, a product of size_t.
size_matches(sz_rem, n_splats, size) ==
    size_t(sz_rem) = size_mul(n_splats, size)

\* metadata.properties.emplace(property, desc.type) for every entry of the
\* layout: a key the map holds already keeps its value.
emplace_all(properties, lay) ==
    properties @@ [p \in DOMAIN lay |-> lay[p].type]

\* The bytes a std::span views, and std::span::subspan(offset).
span_bytes(s) == SubSeq(s.bytes, s.offset + 1, Len(s.bytes))
span_size(s) == Len(s.bytes) - s.offset
subspan(s, offset) == [bytes |-> s.bytes, offset |-> s.offset + offset]

\* What a call returns: true, false, or nothing that the language defines.
Returned(b) == [result |-> b, undefined |-> FALSE]
Undefined == [result |-> FALSE, undefined |-> TRUE]

\* parse_metadata on the bytes left when parse_header has returned true.
metadata_result(sz_rem, n_splats, lay, size, md) ==
    IF ~size_matches(sz_rem, n_splats, size)
    THEN [ret |-> Returned(FALSE), metadata |-> md]
    ELSE [ret |-> Returned(TRUE),
          metadata |-> [properties |-> emplace_all(md.properties, lay),
                        num_splats |-> n_splats]]

\* parse_metadata(ply_buffer, metadata), up to the loop of parse_header.
ParseMetadata(ply_buffer) ==
    /\ ply_pc = "idle"
    /\ ncalls < MaxCalls
    /\ ncalls' = ncalls + 1
    /\ call' = [fn |-> "parse_metadata", ply_buffer |-> ply_buffer,
                metadata |-> metadata, format |-> format, layout |-> layout,
                num_splats |-> ply_num_splats, splat_size |-> splat_size]
    /\ buffer' = [bytes |-> ply_buffer, offset |-> 0]
    /\ LET pre == header_preamble(ply_buffer, format)
       IN  /\ format' = pre.format
           /\ IF pre.outcome = "loop"
              THEN /\ ply_pc' = "header_loop"
                   /\ header_text' = pre.text
                   /\ ret' = NoCall
              ELSE /\ ply_pc' = "idle"
                   /\ header_text' = <<>>
                   /\ ret' = IF pre.outcome = "undefined"
                             THEN Undefined ELSE Returned(FALSE)
    /\ iterations' = 0
    /\ UNCHANGED <<layout, ply_num_splats, splat_size, metadata, splat_index,
                   parsed, frame>>

\* One iteration of the loop of parse_header and, when it returns, the
\* rest of parse_metadata.
HeaderLine ==
    /\ ply_pc = "header_loop"
    /\ iterations < MaxIterations
    /\ iterations' = iterations + 1
    /\ LET it == header_line(header_text, ply_num_splats, layout, splat_size)
           data == subspan(buffer, Len(span_bytes(buffer)) - Len(it.text))
           done == metadata_result(span_size(data), it.num_splats, it.layout,
                                   it.splat_size, metadata)
       IN  /\ ply_num_splats' = it.num_splats
           /\ layout' = it.layout
           /\ splat_size' = it.splat_size
           /\ IF it.outcome = "continue"
              THEN /\ header_text' = it.text
                   /\ UNCHANGED <<ply_pc, ret, buffer, metadata>>
              ELSE /\ header_text' = <<>>
                   /\ ply_pc' = "idle"
                   /\ buffer' = IF it.outcome = "true" THEN data ELSE buffer
                   /\ metadata' = IF it.outcome = "true"
                                  THEN done.metadata ELSE metadata
                   /\ ret' = IF it.outcome = "true" THEN done.ret
                             ELSE IF it.outcome = "undefined" THEN Undefined
                             ELSE Returned(FALSE)
    /\ UNCHANGED <<format, call, splat_index, parsed, ncalls, frame>>

\* parse_data(parse_splat), up to its loop.  &buffer[0] is only an address
\* here; the bytes are read by the getter.
format_has_getter_any(fmt) == fmt # "Invalid"
format_has_getter(fmt) == fmt \in {"BinaryBigEndian", "BinaryLittleEndian"}
ParseData ==
    /\ ply_pc = "idle"
    /\ call' = [fn |-> "parse_data", format |-> format,
                num_splats |-> ply_num_splats, splat_size |-> splat_size,
                layout |-> layout, buffer |-> buffer,
                metadata_ret |-> IF call = NoCall THEN NoCall
                                 ELSE IF call.fn = "parse_metadata" THEN ret
                                 ELSE call.metadata_ret]
    /\ parsed' = <<>>
    /\ splat_index' = 0
    /\ IF format_has_getter(format)
       THEN ply_pc' = "data_loop" /\ ret' = NoCall
       ELSE ply_pc' = "idle" /\ ret' = Returned(FALSE)
    /\ UNCHANGED <<format, layout, ply_num_splats, splat_size, buffer,
                   metadata, header_text, iterations, ncalls, frame>>

\* The byte positions, within the bytes given to parse_metadata, that the
\* getter reads for a property of the splat at index i: data[desc.offset]
\* and the three bytes after it, data being splat = &buffer[0] + i *
\* splat_size.
read_from(i, desc) == buffer.offset + i * splat_size + desc.offset
read_range(i, desc) ==
    read_from(i, desc) .. read_from(i, desc) + type_size_map[desc.type] - 1
in_buffer(range) == range \subseteq 0 .. Len(buffer.bytes) - 1

\* One iteration of the loop of parse_data: parse_splat(i, get), a callback
\* that gets every property of the layout.
ParseSplat ==
    /\ ply_pc = "data_loop"
    /\ IF small_lt(splat_index, ply_num_splats)
       THEN IF \A p \in DOMAIN layout :
                   in_buffer(read_range(splat_index, layout[p]))
            THEN /\ parsed' = Append(parsed,
                        [index |-> splat_index,
                         reads |-> [p \in DOMAIN layout |->
                                       read_from(splat_index, layout[p])]])
                 /\ splat_index' = splat_index + 1
                 /\ UNCHANGED <<ply_pc, ret>>
            ELSE /\ ply_pc' = "idle"
                 /\ ret' = Undefined
                 /\ UNCHANGED <<parsed, splat_index>>
       ELSE /\ ply_pc' = "idle"
            /\ ret' = Returned(TRUE)
            /\ UNCHANGED <<parsed, splat_index>>
    /\ UNCHANGED <<format, layout, ply_num_splats, splat_size, buffer,
                   metadata, header_text, iterations, ncalls, call, frame>>

\* The buffers given to parse_metadata.  Words(ws) is a line of the words
\* ws with a space between them; Lines(ls) is the text of the lines ls,
\* each followed by a newline; Unterminated(ls) has no newline after the
\* last; Data(n) is n bytes of data, none of them a newline.
RECURSIVE Words(_)
Words(ws) ==
    IF Len(ws) = 1 THEN ws[1] ELSE Head(ws) \o <<SPACE>> \o Words(Tail(ws))
RECURSIVE Lines(_)
Lines(ls) == IF ls = <<>> THEN <<>> ELSE Head(ls) \o <<LF>> \o Lines(Tail(ls))
Unterminated(ls) ==
    IF ls = <<>> THEN <<>>
    ELSE Lines(SubSeq(ls, 1, Len(ls) - 1)) \o ls[Len(ls)]
Data(n) == [i \in 1 .. n |-> 128 + i]

\* The words of the buffers that the parser has no literal for.
Word ==
    [ v2_0 |-> <<50, 46, 48>>,  \* "2.0"
      utf8 |-> <<117, 116, 102, 56>>,  \* "utf8"
      fmt |-> <<102, 109, 116>>,  \* "fmt"
      n1 |-> <<49>>,  \* "1"
      n2 |-> <<50>>,  \* "2"
      n3 |-> <<51>>,  \* "3"
      n2x |-> <<50, 120>>,  \* "2x"
      n0 |-> <<48>>,  \* "0"
      minus_1 |-> <<45, 49>>,  \* "-1"
      face |-> <<102, 97, 99, 101>>,  \* "face"
      \* "4611686018427387904"
      n2_62 |->
          <<52, 54, 49, 49, 54, 56, 54, 48, 49, 56, 52, 50, 55, 51, 56, 55, 57, 48, 52>>,
      \* "4611686018427387905"
      n2_62_plus_1 |->
          <<52, 54, 49, 49, 54, 56, 54, 48, 49, 56, 52, 50, 55, 51, 56, 55, 57, 48, 53>>,
      \* "18446744073709551616"
      n2_64 |->
          <<49, 56, 52, 52, 54, 55, 52, 52, 48, 55, 51, 55, 48, 57, 53, 53, 49, 54, 49, 54>>,
      nx |-> <<110, 120>>,  \* "nx"
      int |-> <<105, 110, 116>>,  \* "int"
      made |-> <<109, 97, 100, 101>>,  \* "made"
      by |-> <<98, 121>>,  \* "by"
      hand |-> <<104, 97, 110, 100>>,  \* "hand"
      obj_info |-> <<111, 98, 106, 95, 105, 110, 102, 111>>,  \* "obj_info"
      plx |-> <<112, 108, 120>>,  \* "plx"
      PLY |-> <<80, 76, 89>> ]  \* "PLY"

\* The lines of the buffers.
Line ==
    [ ply |-> Str.ply,
      format_le |-> Words(<<Str.format, Str.binary_little_endian, Str.v1_0>>),
      format_be |-> Words(<<Str.format, Str.binary_big_endian, Str.v1_0>>),
      format_ascii |-> Words(<<Str.format, Str.ascii, Str.v1_0>>),
      format_le_bare |-> Words(<<Str.format, Str.binary_little_endian>>),
      format_be_2_0 |->
          Words(<<Str.format, Str.binary_big_endian, Word.v2_0>>),
      format_ascii_bare |-> Words(<<Str.format, Str.ascii>>),
      \* "format ascii "
      format_ascii_space |->
          <<102, 111, 114, 109, 97, 116, 32, 97, 115, 99, 105, 105, 32>>,
      format_utf8 |-> Words(<<Str.format, Word.utf8, Str.v1_0>>),
      fmt_ascii |-> Words(<<Word.fmt, Str.ascii, Str.v1_0>>),
      format |-> Str.format,
      vertex_1 |-> Words(<<Str.element, Str.vertex, Word.n1>>),
      vertex_2 |-> Words(<<Str.element, Str.vertex, Word.n2>>),
      vertex_3 |-> Words(<<Str.element, Str.vertex, Word.n3>>),
      vertex_2x |-> Words(<<Str.element, Str.vertex, Word.n2x>>),
      vertex_0 |-> Words(<<Str.element, Str.vertex, Word.n0>>),
      vertex_x |-> Words(<<Str.element, Str.vertex, Str.x>>),
      vertex_minus_1 |-> Words(<<Str.element, Str.vertex, Word.minus_1>>),
      vertex |-> Words(<<Str.element, Str.vertex>>),
      face_1 |-> Words(<<Str.element, Word.face, Word.n1>>),
      vertex_2_62 |-> Words(<<Str.element, Str.vertex, Word.n2_62>>),
      vertex_2_62_plus_1 |->
          Words(<<Str.element, Str.vertex, Word.n2_62_plus_1>>),
      vertex_2_64 |-> Words(<<Str.element, Str.vertex, Word.n2_64>>),
      x |-> Words(<<Str.property, Str.float, Str.x>>),
      y |-> Words(<<Str.property, Str.float, Str.y>>),
      y_float32 |-> Words(<<Str.property, Str.float32, Str.y>>),
      nx |-> Words(<<Str.property, Str.float, Word.nx>>),
      int_x |-> Words(<<Str.property, Word.int, Str.x>>),
      property_float |-> Words(<<Str.property, Str.float>>),
      comment |-> Words(<<Str.comment, Word.made, Word.by, Word.hand>>),
      \* "comment \t"
      comment_space_tab |-> <<99, 111, 109, 109, 101, 110, 116, 32, 9>>,
      end_header |-> Str.end_header,
      obj_info |-> Words(<<Word.obj_info, Str.x>>),
      plx |-> Word.plx,
      PLY |-> Word.PLY,
      ply_spaced |-> <<32, 32, 112, 108, 121, 32, 9>>,  \* "  ply \t"
      empty |-> <<>>,  \* ""
      space_tab |-> <<32, 9>> ]  \* " \t"

\* Headers that parse_header accepts, with data of the size declared and
\* of other sizes.
WellFormed ==
    {
      Lines(<<Line.ply, Line.format_le, Line.vertex_2, Line.x, Line.y,
              Line.end_header>>) \o Data(16),
      Lines(<<Line.ply, Line.format_le, Line.vertex_2, Line.x, Line.y,
              Line.end_header>>) \o Data(15),
      Lines(<<Line.ply, Line.format_le, Line.vertex_2, Line.x, Line.y,
              Line.end_header>>) \o Data(17),
      Lines(<<Line.ply, Line.format_le, Line.vertex_2, Line.x, Line.y,
              Line.end_header>>) \o Data(0),
      Lines(<<Line.ply, Line.format_le, Line.vertex_1, Line.comment,
              Line.x, Line.nx, Line.end_header>>) \o Data(8),
      Lines(<<Line.ply, Line.format_be, Line.vertex_1, Line.x,
              Line.end_header>>) \o Data(4),
      Lines(<<Line.ply, Line.format_be, Line.vertex_2, Line.y_float32,
              Line.end_header>>) \o Data(8),
      Lines(<<Line.ply, Line.format_be, Line.vertex_1, Line.x,
              Line.end_header>>) \o Data(3),
      Lines(<<Line.ply_spaced, Line.format_le_bare, Line.vertex_2x,
              Line.property_float, Line.end_header>>) \o Data(8),
      Lines(<<Line.ply, Line.format_be_2_0, Line.vertex_3, Line.end_header>>)
          \o Data(0),
      Lines(<<Line.ply, Line.format_le, Line.end_header>>) \o Data(0)
    }
\* Headers that declare the text encoding.
Ascii ==
    {
      Lines(<<Line.ply, Line.format_ascii, Line.vertex_1, Line.x,
              Line.end_header>>) \o <<49, 46, 53, 10>>,
      Lines(<<Line.ply, Line.format_ascii, Line.vertex_1, Line.x,
              Line.end_header>>) \o <<49, 46, 50, 53, 10>>,
      Lines(<<Line.ply, Line.format_ascii, Line.vertex_2, Line.x, Line.y,
              Line.end_header>>) \o <<49, 32, 50, 10, 51, 32, 52, 10>>,
      Lines(<<Line.ply, Line.format_ascii_bare>>) \o Data(0)
    }
\* Buffers whose first line is not the magic.
BadMagic ==
    {
      Lines(<<Line.plx, Line.format_le, Line.vertex_1, Line.x,
              Line.end_header>>) \o Data(4),
      Lines(<<Line.PLY, Line.format_ascii, Line.vertex_1, Line.x,
              Line.end_header>>) \o Data(4),
      Lines(<<Line.empty, Line.format_le, Line.vertex_1, Line.x,
              Line.end_header>>) \o Data(4),
      Lines(<<Line.format_le, Line.vertex_1, Line.x, Line.end_header>>)
          \o Data(4),
      Lines(<<>>) \o Data(0),
      Unterminated(<<Line.ply>>) \o Data(0)
    }
\* Buffers whose second line is not a format line the parser knows.
BadFormat ==
    {
      Lines(<<Line.ply, Line.format_utf8, Line.vertex_1, Line.x,
              Line.end_header>>) \o Data(4),
      Lines(<<Line.ply, Line.fmt_ascii, Line.vertex_1, Line.x,
              Line.end_header>>) \o Data(4),
      Lines(<<Line.ply, Line.format>>) \o Data(0),
      Unterminated(<<Line.ply, Line.format_ascii_space>>) \o Data(0)
    }
\* Headers with a line that the loop of parse_header refuses.
BadLines ==
    {
      Lines(<<Line.ply, Line.format_le, Line.vertex_2, Line.x, Line.x,
              Line.end_header>>) \o Data(16),
      Lines(<<Line.ply, Line.format_le, Line.vertex_2, Line.x, Line.y,
              Line.x, Line.end_header>>) \o Data(24),
      Lines(<<Line.ply, Line.format_le, Line.vertex_2, Line.vertex_2,
              Line.x, Line.end_header>>) \o Data(8),
      Lines(<<Line.ply, Line.format_le, Line.vertex_1, Line.x,
              Line.face_1, Line.end_header>>) \o Data(4),
      Lines(<<Line.ply, Line.format_le, Line.face_1, Line.end_header>>)
          \o Data(0),
      Lines(<<Line.ply, Line.format_le, Line.vertex_0, Line.end_header>>)
          \o Data(0),
      Lines(<<Line.ply, Line.format_le, Line.vertex_x, Line.end_header>>)
          \o Data(0),
      Lines(<<Line.ply, Line.format_le, Line.vertex_minus_1,
              Line.end_header>>) \o Data(0),
      Lines(<<Line.ply, Line.format_le, Line.vertex, Line.end_header>>)
          \o Data(0),
      Lines(<<Line.ply, Line.format_le, Line.vertex_2_64, Line.x,
              Line.end_header>>) \o Data(0),
      Lines(<<Line.ply, Line.format_le, Line.x, Line.vertex_1,
              Line.end_header>>) \o Data(4),
      Lines(<<Line.ply, Line.format_le, Line.vertex_1, Line.int_x,
              Line.end_header>>) \o Data(4),
      Lines(<<Line.ply, Line.format_le, Line.vertex_1, Line.obj_info,
              Line.end_header>>) \o Data(0),
      Lines(<<Line.ply, Line.format_le, Line.vertex_1, Line.empty,
              Line.x, Line.end_header>>) \o Data(4),
      Lines(<<Line.ply, Line.format_le, Line.vertex_1, Line.space_tab,
              Line.x, Line.end_header>>) \o Data(4)
    }
\* Headers whose vertex count times the splat size passes 2^64.
HugeCount ==
    {
      Lines(<<Line.ply, Line.format_le, Line.vertex_2_62, Line.x,
              Line.end_header>>) \o Data(0),
      Lines(<<Line.ply, Line.format_le, Line.vertex_2_62_plus_1, Line.x,
              Line.end_header>>) \o Data(4),
      Lines(<<Line.ply, Line.format_le, Line.vertex_2_62, Line.x,
              Line.end_header>>) \o Data(4)
    }
\* Buffers that end before end_header, with and without a newline at the
\* end.
Truncated ==
    {
      Lines(<<Line.ply, Line.format_le, Line.vertex_2, Line.x>>) \o Data(0),
      Unterminated(<<Line.ply, Line.format_le, Line.vertex_2, Line.x>>)
          \o Data(0),
      Unterminated(<<Line.ply, Line.format_le, Line.vertex_2>>) \o Data(0),
      Unterminated(<<Line.ply, Line.format_le, Line.comment>>) \o Data(0),
      Unterminated(<<Line.ply, Line.format_le, Line.vertex_2, Line.comment>>)
          \o Data(0),
      Unterminated(<<Line.ply, Line.format_le, Line.vertex_2, Line.nx>>)
          \o Data(0),
      Unterminated(<<Line.ply, Line.format_le, Line.vertex_2,
              Line.comment_space_tab>>) \o Data(0),
      Unterminated(<<Line.ply, Line.format_le, Line.vertex_2, Line.x,
              Line.end_header>>) \o Data(0),
      Lines(<<Line.ply, Line.format_le>>) \o Data(0),
      Unterminated(<<Line.ply, Line.format_le>>) \o Data(0)
    }
PlyBuffers ==
    WellFormed \cup Ascii \cup BadMagic \cup BadFormat
        \cup BadLines \cup HugeCount \cup Truncated

InitPly == FrameIdle /\ PlyIdle /\ call = NoCall /\ ret = NoCall
NextPly ==
    \/ \E ply_buffer \in PlyBuffers : ParseMetadata(ply_buffer)
    \/ HeaderLine
    \/ ParseData
    \/ ParseSplat
SpecPly == InitPly /\ [][NextPly]_vars

(***************************************************************************)
(* The properties.  A slot k of distances[] that has been written belongs  *)
(* to the splat indices[k], before the sort and after it.                  *)
(***************************************************************************)
RAbs(p) == IF RSign(p) < 0 THEN RNeg(p) ELSE p
Written(k) == distances[k] # Unwritten
SlotClip(k) == distance_pos_clip(load_position(indices[k]))
VertexClip ==
    vertex_pos_clip(load_position(vertex_splat_id(indices, vs_out.in_id)))

\* abs(x) > abs(w), abs(y) > abs(w) or z > w
CulledClip(pc) ==
    \/ RLt(RAbs(pc[4]), RAbs(pc[1]))
    \/ RLt(RAbs(pc[4]), RAbs(pc[2]))
    \/ RLt(pc[4], pc[3])

\* C1: a splat whose clip-space position has abs(x) > abs(w), abs(y) >
\* abs(w) or z > w has the key DISTANCE_NOT_VISIBLE in distances[], and
\* each of the six vertex shader invocations that resolve to it returns the
\* position (0, 0, 0, 0).
C1_CulledSplatIsDropped ==
    /\ \A k \in ThreadIds :
          (Written(k) /\ CulledClip(SlotClip(k)))
              => distances[k] = DISTANCE_NOT_VISIBLE
    /\ (vs_out.in_id >= 0 /\ CulledClip(VertexClip))
          => vs_out.out_position = ZeroPosition

\* The sixth vertex of a culled splat is out, with its key in distances[].
C1_Witness ==
    /\ vs_out.in_id >= 0
    /\ vs_out.in_id % 6 = 5
    /\ CulledClip(VertexClip)
    /\ vs_out.out_position = ZeroPosition
    /\ distances[vs_out.in_id \div 6] = DISTANCE_NOT_VISIBLE

\* C2, as stated: every key written is in [0, 2^16 - 3] or is the sentinel
\* 2^16 - 1, and no splat inside the frustum has a key above 2^16 - 3.
C2_KeyRangeAsStated ==
    \A k \in ThreadIds :
        Written(k) =>
            /\ distances[k] \in 0 .. Pow2(16) - 3
               \/ distances[k] = Pow2(16) - 1
            /\ inside_frustum(SlotClip(k)) => distances[k] <= Pow2(16) - 3

\* C2, amended: every key written is in [0, 2^16 - 2] or is the sentinel
\* 2^16 - 1, and a splat inside the frustum has a key of at most 2^16 - 2,
\* which a splat with z / w = 1 reaches.
C2_KeyRange ==
    \A k \in ThreadIds :
        Written(k) =>
            /\ distances[k] \in 0 .. Pow2(16) - 2
               \/ distances[k] = Pow2(16) - 1
            /\ inside_frustum(SlotClip(k)) => distances[k] <= Pow2(16) - 2
            /\ (inside_frustum(SlotClip(k)) /\ SlotClip(k)[3] = SlotClip(k)[4])
                  => distances[k] = Pow2(16) - 2

\* A splat inside the frustum with z / w = 1 has its key in distances[].
C2_Witness ==
    \E k \in ThreadIds :
        /\ Written(k)
        /\ inside_frustum(SlotClip(k))
        /\ SlotClip(k)[3] = SlotClip(k)[4]
        /\ distances[k] = Pow2(16) - 2

\* z / w of a clip-space position, and the positions of the catalogue.
Depth(pc) == RDiv(pc[3], pc[4])
CatalogueClips ==
    {distance_pos_clip(Catalogue[c].pos) : c \in 1 .. Len(Catalogue)}

\* C3: of two splats inside the frustum, the one with the smaller z / w has
\* the smaller or the same key, and the key of a splat inside the frustum is
\* below the sentinel.
C3_KeyMonotone ==
    \A k \in ThreadIds :
        (Written(k) /\ inside_frustum(SlotClip(k))) =>
            /\ distances[k] < DISTANCE_NOT_VISIBLE
            /\ \A pc \in CatalogueClips :
                  (inside_frustum(pc) /\ Depth(pc) # NonFinite
                       /\ Depth(SlotClip(k)) # NonFinite) =>
                      /\ RLe(Depth(SlotClip(k)), Depth(pc))
                            => distances[k] <= distance_of(pc)
                      /\ RLe(Depth(pc), Depth(SlotClip(k)))
                            => distance_of(pc) <= distances[k]

\* Two splats inside the frustum, the nearer with the smaller key, are in
\* distances[].
C3_Witness ==
    \E k, l \in ThreadIds :
        /\ Written(k) /\ inside_frustum(SlotClip(k))
        /\ Written(l) /\ inside_frustum(SlotClip(l))
        /\ RLt(Depth(SlotClip(k)), Depth(SlotClip(l)))
        /\ distances[k] < distances[l]

DistanceDispatchDone == ranD = ThreadIds /\ ~sorted

\* C4: when the distance dispatch is complete, indices[i] = i and
\* distances[i] holds a key for every i below num_splats, the splats
\* outside the frustum included.
C4_EverySlotWritten ==
    DistanceDispatchDone =>
        \A i \in SplatIds :
            /\ indices[i] = i
            /\ distances[i] \in 0 .. DISTANCE_NOT_VISIBLE

\* The dispatch is complete with a splat outside the frustum among them.
C4_Witness ==
    /\ DistanceDispatchDone
    /\ \E i \in SplatIds :
          /\ ~inside_frustum(distance_pos_clip(positions[i]))
          /\ indices[i] = i
          /\ distances[i] = DISTANCE_NOT_VISIBLE

\* C5: an invocation of either kernel with a thread id of num_splats or
\* more writes none of transforms[], indices[] and distances[].
C5_OutOfRangeIsNoOp ==
    [][\A tid \in ThreadIds :
          (tid >= num_splats /\ (tid \in ranT' \ ranT \/ tid \in ranD' \ ranD))
              => UNCHANGED <<transforms, indices, distances>>]_vars

\* An out-of-range thread of each kernel has run and its slots are as they
\* were.
C5_Witness ==
    \E tid \in ranT \cap ranD :
        /\ tid >= num_splats
        /\ transforms[tid] = UnwrittenTransform
        /\ indices[tid] = Unwritten
        /\ distances[tid] = Unwritten

\* What the kernels leave in the buffers whatever the order of invocations.
DistanceResult(i) ==
    indices[i] = i /\ distances[i] = distance_of(distance_pos_clip(positions[i]))
TransformResult(i) ==
    transforms[i] = transform_of(positions[i], covariances[i])

\* C6: invocation i of a kernel writes slot i of its output buffers and no
\* other, what it writes is a function of the read-only inputs alone, and
\* so the buffers after a dispatch are the same for every interleaving: at
\* any point of a dispatch, slot i is as it was before the dispatch until
\* invocation i has run and holds the result of invocation i from then on.
C6_DisjointSlots ==
    /\ ~sorted =>
          \A i \in ThreadIds :
              IF i \in ranD /\ i < num_splats
              THEN DistanceResult(i)
              ELSE indices[i] = Unwritten /\ distances[i] = Unwritten
    /\ \A i \in ThreadIds :
          IF i \in ranT /\ i < num_splats
          THEN TransformResult(i)
          ELSE transforms[i] = UnwrittenTransform

\* Both dispatches of a scene of more than one splat are complete.
C6_Witness ==
    /\ num_splats > 1
    /\ DistanceDispatchDone
    /\ ranT = ThreadIds
    /\ \A i \in SplatIds : DistanceResult(i) /\ TransformResult(i)

\* The transforms a splat at the packed position may have, by covariance.
TransformsAt(packed) ==
    {transform_of(packed, Catalogue[c].cov) : c \in 1 .. Len(Catalogue)}
        \cup {UnwrittenTransform}

\* C7: a splat behind the camera (clip-space w < 0) has the key
\* DISTANCE_NOT_VISIBLE and the position (0, 0, 0, 0) at each of its six
\* vertices, whatever its covariance and whatever transforms[] holds.
C7_BehindCameraIsDropped ==
    /\ \A k \in ThreadIds :
          (Written(k) /\ RLt(SlotClip(k)[4], R(0)))
              => distances[k] = DISTANCE_NOT_VISIBLE
    /\ (vs_out.in_id >= 0 /\ RLt(VertexClip[4], R(0))) =>
          /\ vs_out.out_position = ZeroPosition
          /\ \A t \in TransformsAt(
                        load_position(vertex_splat_id(indices, vs_out.in_id))) :
                vertex_position(
                    indices,
                    [transforms EXCEPT
                        ![vertex_splat_id(indices, vs_out.in_id)] = t],
                    vs_out.in_id) = ZeroPosition

\* The sixth vertex of a splat behind the camera is out.
C7_Witness ==
    /\ vs_out.in_id >= 0
    /\ vs_out.in_id % 6 = 5
    /\ RLt(VertexClip[4], R(0))
    /\ vs_out.out_position = ZeroPosition
    /\ distances[vs_out.in_id \div 6] = DISTANCE_NOT_VISIBLE

\* dot(v, v) of a sample.
SampleD(v) == Dot(RVec(v), RVec(v))
PixelD == Dot(ps_out.sig_div_sqrt_2, ps_out.sig_div_sqrt_2)

\* C8: the alpha the pixel shader returns is 0 when d = dot(v, v) is the
\* cutoff or more, is base_alpha when v = (0, 0), and below the cutoff
\* does not grow with d (and falls with d when base_alpha is positive).
C8_AlphaFalloff ==
    ps_out # NoPixel =>
        /\ ~RLt(PixelD, R(CUTOFF_RADIUS_SIGMA_SQUARED_OVER_2))
              => ps_out.out_color[4] = R(0)
        /\ ps_out.sig_div_sqrt_2 = <<R(0), R(0)>>
              => ps_out.out_color[4] = ps_out.in_color[4]
        /\ \A v \in QuadSamples :
              (RLt(PixelD, SampleD(v))
                    /\ RLt(SampleD(v), R(CUTOFF_RADIUS_SIGMA_SQUARED_OVER_2))) =>
                 /\ RLe(pixel_color(RVec(v), ps_out.in_color)[4],
                        ps_out.out_color[4])
                 /\ RLt(R(0), ps_out.in_color[4])
                       => RLt(pixel_color(RVec(v), ps_out.in_color)[4],
                              ps_out.out_color[4])

\* A sample with d equal to the cutoff, of a splat with a positive
\* base_alpha, has been shaded.
C8_Witness ==
    /\ ps_out # NoPixel
    /\ PixelD = R(CUTOFF_RADIUS_SIGMA_SQUARED_OVER_2)
    /\ RLt(R(0), ps_out.in_color[4])
    /\ ps_out.out_color[4] = R(0)

\* One splat on the forward axis of the camera, with the identity
\* covariance and the colour (1, 0, 0, 1), on a square render target.
C9_Scenario ==
    /\ num_splats = 1
    /\ cam = CamForward
    /\ positions[0] = PosAxis2
    /\ covariances[0] = CovIdentity
    /\ colors[0] = Red

\* The square of half the side of the quad in clip space:
\* RADIUS_SIGMA_OVER_SQRT_2 * two_focal_length / z * sqrt(2) / resolution * w
\* for the eigenvalues 1, 1, on either axis.
C9_HalfSideSquared(axis) ==
    LET pv == transform_pos_view(positions[0])
        f  == RDiv(cam.two_focal_length[axis], pv[3])
        h  == RMul(RMul(R(RADIUS_SIGMA_OVER_SQRT_2), f),
                   RDiv(VertexClip[4], cam.render_resolution[axis]))
    IN  SurdOf(RMul(R(2), RMul(h, h)))

\* C9: in the scenario each of the six vertices is well defined and lies
\* half a side from the centre on both axes, the centre being the origin,
\* and the sample at the centre of the quad has the alpha 1.
C9_CentredSquare ==
    C9_Scenario =>
        /\ vs_out.in_id >= 0 =>
              /\ IsFiniteSum(vs_out.out_position[1])
              /\ IsFiniteSum(vs_out.out_position[2])
              /\ Len(vs_out.out_position[1]) = 1
              /\ Len(vs_out.out_position[2]) = 1
              /\ vs_out.out_position[1][1][2] = C9_HalfSideSquared(1)
              /\ vs_out.out_position[2][1][2] = C9_HalfSideSquared(2)
        /\ (ps_out # NoPixel /\ ps_out.sig_div_sqrt_2 = <<R(0), R(0)>>)
              => ps_out.out_color[4] = R(1)

\* S00 + S11 and S00 * S11 - S01 ^ 2 of a projected covariance.
Trace2(sp) == RAdd(sp[1], sp[3])
Det2(sp) == RSub(RMul(sp[1], sp[3]), RMul(sp[2], sp[2]))
Disc2(sp) == RSub(RMul(Trace2(sp), Trace2(sp)), RMul(R(4), Det2(sp)))
Half(x) == SMul(x, SurdOf(<<1, 2>>))
SplatSigP(i) == sig_p(positions[i], covariances[i])

\* C10: for a splat whose projected covariance has a positive discriminant,
\* the two eigenvalues two_lmb / 2 of the transform kernel add up to S00 +
\* S11 and multiply to S00 * S11 - S01 ^ 2.
C10_EigenvalueSumProduct ==
    \A i \in SplatIds \cap ranT :
        (IsFinite(SplatSigP(i)[1]) /\ IsFinite(SplatSigP(i)[2])
              /\ IsFinite(SplatSigP(i)[3]) /\ RLt(R(0), Disc2(SplatSigP(i)))) =>
            /\ SAdd(Half(two_lmb_of(SplatSigP(i))[1]),
                    Half(two_lmb_of(SplatSigP(i))[2]))
                  = SurdOf(Trace2(SplatSigP(i)))
            /\ SMul(Half(two_lmb_of(SplatSigP(i))[1]),
                    Half(two_lmb_of(SplatSigP(i))[2]))
                  = SurdOf(Det2(SplatSigP(i)))

\* The kernel has run on a splat whose discriminant is positive and not the
\* square of a rational.
C10_Witness ==
    \E i \in SplatIds \cap ranT :
        /\ IsFinite(SplatSigP(i)[1])
        /\ RLt(R(0), Disc2(SplatSigP(i)))
        /\ ~IsRSquare(Disc2(SplatSigP(i)))
        /\ transforms[i] # UnwrittenTransform

\* x + y * 2^11 + z * 2^22 as a word.
pack(x, y, z) == Fields(x, y, z)

\* C11: unpack_pos takes the word pack(x, y, z) of any fields x < 2^11,
\* y < 2^11 and z < 2^10 back to (x, y, z) times scale plus offset, so to
\* (x, y, z) itself under the scale 1 and the offset 0; and each of the 32
\* bits of the word belongs to exactly one of the three fields.
C11_UnpackPosRoundTrip ==
    (call # NoCall /\ call.fn = "unpack_pos") =>
        /\ \A x \in Fields11, y \in Fields11, z \in Fields10 :
              call.packed = pack(x, y, z) =>
                  /\ ret = <<RAdd(RMul(R(x), call.scale[1]), call.offset[1]),
                             RAdd(RMul(R(y), call.scale[2]), call.offset[2]),
                             RAdd(RMul(R(z), call.scale[3]), call.offset[3]),
                             R(1)>>
                  /\ (call.scale = RVec(<<1, 1, 1>>)
                         /\ call.offset = RVec(<<0, 0, 0>>))
                        => ret = <<R(x), R(y), R(z), R(1)>>
        /\ (Cardinality(call.packed) = 1 /\ call.scale = RVec(<<1, 1, 1>>)
               /\ call.offset = RVec(<<0, 0, 0>>)) =>
              Cardinality({i \in 1 .. 3 : ret[i] # R(0)}) = 1

\* The word of the largest fields, with a bit of every neighbour set, has
\* been unpacked under the scale 1 and the offset 0.
C11_Witness ==
    /\ call # NoCall
    /\ call.fn = "unpack_pos"
    /\ call.packed = pack(2047, 2047, 1023)
    /\ ret = <<R(2047), R(2047), R(1023), R(1)>>

\* The bits of the field of a call of unpack_f16, and the half the field
\* stands for: its bits moved up to end at bit 14 (at bit 15 with a sign).
F16FieldBits == call.offset .. (call.offset + call.s + call.e + call.m - 1)
F16Pattern ==
    Shl(Shr(BitAnd(call.packed, F16FieldBits), call.offset),
        15 - call.e - call.m)
F16Call == call # NoCall /\ call.fn = "unpack_f16"

\* C16, as stated: unpack_f16 shifts without masking exactly when the field
\* has no sign bit and starts at bit 0, and masks in every other case.
C16_NoMaskAsStated ==
    F16Call => (ret.masked <=> ~(call.s = 0 /\ call.offset = 0))

\* C16, amended: unpack_f16 shifts without masking exactly when the field
\* has a sign bit and starts at bit 0, and masks in every other case; in
\* every case the half it returns is that of the field's own bits, with a
\* sign bit of 0 when the field has none.
C16_NoMask ==
    F16Call =>
        /\ ret.masked <=> ~(call.s = 1 /\ call.offset = 0)
        /\ ret.value = f16tof32(F16Pattern)
        /\ call.s = 0 => 15 \notin F16Pattern

\* A signed field at bit 0 of a word with every bit set has been unpacked
\* without a mask.
C16_Witness ==
    /\ F16Call
    /\ call.s = 1
    /\ call.offset = 0
    /\ call.packed = WordBits
    /\ ~ret.masked
    /\ ret.value = f16tof32(F16Pattern)

\* The entries of the corner table, and the places an entry holds in it.
CornerSet == {corners[j] : j \in 1 .. Len(corners)}
CornerPlaces(c) == {j \in 1 .. Len(corners) : corners[j] = c}
\* The splat of the latest vertex, read from indices[] directly.
VertexSplat == indices[vs_out.in_id \div 6]
VertexSplatClip == vertex_pos_clip(load_position(VertexSplat))

\* C17: vertex 6k + j (j = 0 .. 5) is a vertex of the splat indices[k] and
\* takes entry j of the corner table; the table holds the four corners
\* (+-R, +-R) with R = RADIUS_SIGMA_OVER_SQRT_2, of which (+R, -R) and
\* (-R, +R) and no other appear twice, once in entries 0 .. 2 and once in
\* entries 3 .. 5, so that the two triangles share that diagonal.
C17_QuadCorners ==
    /\ Len(corners) = 6
    /\ CornerSet =
          {<<a, b>> : a, b \in {-RADIUS_SIGMA_OVER_SQRT_2,
                                RADIUS_SIGMA_OVER_SQRT_2}}
    /\ {c \in CornerSet : Cardinality(CornerPlaces(c)) = 2} =
          {<<RADIUS_SIGMA_OVER_SQRT_2, -RADIUS_SIGMA_OVER_SQRT_2>>,
           <<-RADIUS_SIGMA_OVER_SQRT_2, RADIUS_SIGMA_OVER_SQRT_2>>}
    /\ \A c \in CornerSet :
          Cardinality(CornerPlaces(c)) = 2 =>
              /\ CornerPlaces(c) \cap (1 .. 3) # {}
              /\ CornerPlaces(c) \cap (4 .. 6) # {}
    /\ (vs_out.in_id >= 0 /\ ~outside_frustum(VertexSplatClip)) =>
          /\ vs_out.out_sig_div_sqrt_2 = RVec(corners[(vs_out.in_id % 6) + 1])
          /\ vs_out.out_color = colors[VertexSplat]
          /\ vs_out.out_position[3] = VertexSplatClip[3]
          /\ vs_out.out_position[4] = VertexSplatClip[4]
          /\ IsFiniteSum(vs_out.out_position[1]) =>
                vs_out.out_position =
                    expanded_position(VertexSplatClip, transforms[VertexSplat],
                                      (vs_out.in_id % 6))

\* The sixth vertex of the second splat drawn, a splat inside the frustum,
\* is out with the corner (+R, +R).
C17_Witness ==
    /\ vs_out.in_id = 11
    /\ ~outside_frustum(VertexSplatClip)
    /\ vs_out.out_sig_div_sqrt_2 =
          RVec(<<RADIUS_SIGMA_OVER_SQRT_2, RADIUS_SIGMA_OVER_SQRT_2>>)
    /\ vs_out.out_color = colors[VertexSplat]

ProjectCall == call # NoCall /\ call.fn = "project"
\* (S00 - S11)^2 + 4 * S01^2
SumOfSquares(sp) ==
    RAdd(RMul(RSub(sp[1], sp[3]), RSub(sp[1], sp[3])),
         RMul(R(4), RMul(sp[2], sp[2])))

\* C18: the discriminant trace^2 - 4 * det the kernel takes the square root
\* of is (S00 - S11)^2 + 4 * S01^2 and so is not negative, for every
\* symmetric projected covariance, positive definite or not; its square
\* root is a number.
C18_DiscriminantNonNegative ==
    ProjectCall =>
        /\ ret.disc = SumOfSquares(call.sig_p)
        /\ ~RLt(ret.disc, R(0))
        /\ IsFiniteSurd(ret.sqrt_disc)
        /\ SSign(ret.sqrt_disc) >= 0
        /\ SMul(ret.sqrt_disc, ret.sqrt_disc) = SurdOf(ret.disc)

\* The kernel has taken the root of the discriminant of a covariance with
\* a negative determinant.
C18_Witness ==
    /\ ProjectCall
    /\ RLt(Det2(call.sig_p), R(0))
    /\ call.sig_p[2] # R(0)
    /\ call.sig_p[1] = call.sig_p[3]
    /\ IsFiniteSurd(ret.sqrt_disc)

\* S00 > 0 and S00 * S11 - S01^2 > 0
PositiveDefinite(sp) == RLt(R(0), sp[1]) /\ RLt(R(0), Det2(sp))

\* C19: for a positive definite projected covariance the vector (S01,
\* lambda0 - S00) the kernel normalizes is not zero, v_0 is a unit vector,
\* and the transform stored is (v_0.x, -v_0.y, v_0.y, v_0.x) times
\* scale.xyxy: its columns are v_0 and (-v_0.y, v_0.x), scaled.
C19_EigenvectorDefined ==
    (ProjectCall /\ PositiveDefinite(call.sig_p)) =>
        /\ ret.v_0_arg # <<SurdOf(R(0)), SurdOf(R(0))>>
        /\ IsFiniteRoot(ret.v_0[1])
        /\ IsFiniteRoot(ret.v_0[2])
        /\ SAdd(ret.v_0[1][2], ret.v_0[2][2]) = SurdOf(R(1))
        /\ ret.transform =
              <<RootMul(ret.v_0[1], ret.scale[1]),
                RootMul(RootNeg(ret.v_0[2]), ret.scale[2]),
                RootMul(ret.v_0[2], ret.scale[1]),
                RootMul(ret.v_0[1], ret.scale[2])>>
        /\ \A i \in 1 .. 4 : IsFiniteRoot(ret.transform[i])

ValidateCall == call # NoCall /\ call.fn = "validate_metadata"
\* X, Y, Z, RotationX/Y/Z/W, ScaleX/Y/Z, DCRed/DCGreen/DCBlue, Opacity
FourteenRequired ==
    {"X", "Y", "Z", "RotationX", "RotationY", "RotationZ", "RotationW",
     "ScaleX", "ScaleY", "ScaleZ", "DCRed", "DCGreen", "DCBlue", "Opacity"}

\* C12: validate_metadata returns true exactly when the properties of the
\* metadata contain all fourteen required properties; when one is absent
\* it returns false at the first absent one of its list, and a property
\* beyond the fourteen changes nothing.
C12_ValidateMetadata ==
    ValidateCall =>
        /\ ret.result <=> FourteenRequired \subseteq DOMAIN call.metadata.properties
        /\ ~ret.result =>
              /\ ret.logged \in FourteenRequired
              /\ ret.logged \notin DOMAIN call.metadata.properties
        /\ ret.result => ret.logged = "none"

\* validate_metadata has accepted the fourteen properties with
\* Property::Ignore among them.
C12_Witness ==
    /\ ValidateCall
    /\ DOMAIN call.metadata.properties = FourteenRequired \cup {"Ignore"}
    /\ ret.result

(***************************************************************************)
(* The PLY parser.  The header of a buffer is read here a second time, by  *)
(* splitting the bytes at newlines and the lines at spaces and tabs, to    *)
(* tell what a buffer declares without the parser.                         *)
(***************************************************************************)
RECURSIVE SplitAt(_, _)
SplitAt(bytes, seps) ==
    LET at == {i \in 1 .. Len(bytes) : bytes[i] \in seps}
        first == CHOOSE i \in at : \A j \in at : i <= j
    IN  IF at = {} THEN <<bytes>>
        ELSE <<SubSeq(bytes, 1, first - 1)>>
                 \o SplitAt(SubSeq(bytes, first + 1, Len(bytes)), seps)
\* The lines of a buffer; after the last newline there is a line only if
\* bytes follow it.
LinesOf(bytes) ==
    LET ls == SplitAt(bytes, {LF})
    IN  IF ls[Len(ls)] = <<>> THEN SubSeq(ls, 1, Len(ls) - 1) ELSE ls
WordsOf(line) == SelectSeq(SplitAt(line, {SPACE, TAB}), LAMBDA w : w # <<>>)
\* The lines of the header, as words, up to the end_header line.
HeaderWords(bytes) ==
    LET ws == [i \in 1 .. Len(LinesOf(bytes)) |-> WordsOf(LinesOf(bytes)[i])]
        ends == {i \in 1 .. Len(ws) : ws[i] # <<>> /\ ws[i][1] = Str.end_header}
    IN  IF ends = {} THEN ws
        ELSE SubSeq(ws, 1, CHOOSE i \in ends : \A j \in ends : i <= j)
HasMagic(bytes) ==
    HeaderWords(bytes) # <<>> /\ HeaderWords(bytes)[1] = <<Str.ply>>
ElementLines(bytes) ==
    {i \in 1 .. Len(HeaderWords(bytes)) :
        HeaderWords(bytes)[i] # <<>> /\ HeaderWords(bytes)[i][1] = Str.element}
RecognizedLines(bytes, name) ==
    {i \in 1 .. Len(HeaderWords(bytes)) :
        /\ Len(HeaderWords(bytes)[i]) >= 3
        /\ HeaderWords(bytes)[i][1] = Str.property
        /\ HeaderWords(bytes)[i][3] = name}
DeclaresTwice(bytes) ==
    \E name \in DOMAIN property_map : Cardinality(RecognizedLines(bytes, name)) > 1
MetadataCall == call # NoCall /\ call.fn = "parse_metadata"
MetadataReturned == MetadataCall /\ ret # NoCall /\ ~ret.undefined
\* parse_header has returned true in the call: the span starts after the
\* header.
HeaderAccepted == MetadataReturned /\ buffer.offset > 0
\* num_splats * splat_size = n as a product of numbers, without a width.
ProductIs(count, size, n) ==
    IF size = 0 THEN n = 0 ELSE IsSmall(count) /\ SmallOf(count) * size = n

\* C13: parse_metadata returns false when the first line is not the magic
\* "ply", when a recognized property is declared twice, when a second
\* element line appears, or when the bytes left after end_header differ
\* from num_splats * splat_size; and when it returns false the Metadata of
\* the caller is as it was before the call.
C13_FailsFast ==
    MetadataReturned =>
        /\ ~HasMagic(call.ply_buffer) => ~ret.result
        /\ DeclaresTwice(call.ply_buffer) => ~ret.result
        /\ Cardinality(ElementLines(call.ply_buffer)) > 1 => ~ret.result
        /\ (/\ HeaderAccepted
            /\ ~ProductIs(ply_num_splats, splat_size, span_size(buffer)))
               => ~ret.result
        /\ ~ret.result => metadata = call.metadata

DataCall == call # NoCall /\ call.fn = "parse_data"
\* The buffer of the latest parse_metadata has the magic line and a format
\* line with the word ascii.
DeclaresAscii(bytes) ==
    /\ HasMagic(bytes)
    /\ Len(HeaderWords(bytes)) >= 2
    /\ Len(HeaderWords(bytes)[2]) >= 2
    /\ HeaderWords(bytes)[2][1] = Str.format
    /\ HeaderWords(bytes)[2][2] = Str.ascii
\* The latest parse_metadata, the one before the parse_data call, returned
\* with defined behaviour.
AfterMetadata ==
    DataCall /\ call.metadata_ret # NoCall /\ ~call.metadata_ret.undefined

\* C14: when the header given to parse_metadata declares format ascii,
\* parse_data returns false at once and never calls parse_splat.
C14_AsciiIsRefused ==
    (AfterMetadata /\ DeclaresAscii(buffer.bytes)) =>
        /\ ply_pc = "idle"
        /\ ret = Returned(FALSE)
        /\ parsed = <<>>

\* parse_data has refused an ascii file that parse_metadata had accepted.
C14_Witness ==
    /\ AfterMetadata
    /\ DeclaresAscii(buffer.bytes)
    /\ call.metadata_ret.result
    /\ ret = Returned(FALSE)

\* The latest parse_metadata returned true on a header that declares one of
\* the binary formats.
DeclaresBinary(bytes) ==
    /\ HasMagic(bytes)
    /\ Len(HeaderWords(bytes)) >= 2
    /\ Len(HeaderWords(bytes)[2]) >= 2
    /\ HeaderWords(bytes)[2][1] = Str.format
    /\ HeaderWords(bytes)[2][2] \in {Str.binary_big_endian, Str.binary_little_endian}
AfterSuccess ==
    /\ AfterMetadata
    /\ call.metadata_ret.result
    /\ DeclaresBinary(buffer.bytes)
\* The parse_splat call at place k of the log has index k - 1 and has read
\* every declared property at (k - 1) * splat_size + its offset, counted
\* from the start of the data section, all four bytes inside the buffer.
CallInOrder(k) ==
    /\ parsed[k].index = k - 1
    /\ DOMAIN parsed[k].reads = DOMAIN layout
    /\ \A p \in DOMAIN layout :
          /\ parsed[k].reads[p] - buffer.offset
                = (k - 1) * splat_size + layout[p].offset
          /\ parsed[k].reads[p] + 3 < Len(buffer.bytes)

\* C15: after a parse_metadata that returned true on a binary file,
\* parse_data calls parse_splat with the indices 0, 1, ... in this order,
\* each call reads every declared property at index * splat_size + offset
\* of the data section, and parse_data returns true after exactly
\* num_splats calls.
C15_SplatsInOrder ==
    AfterSuccess =>
        /\ \A k \in 1 .. Len(parsed) : CallInOrder(k)
        /\ ply_pc = "idle" =>
              /\ ret = Returned(TRUE)
              /\ ProductIs(metadata.num_splats, 1, Len(parsed))

\* C20: parse_metadata returns on every finite buffer: each iteration of
\* the header loop either returns or leaves less header text than it
\* found, also on a buffer that ends in a comment, element or property
\* line without a newline and without end_header.
C20_HeaderLoopShortens ==
    [][iterations' = iterations + 1 =>
          \/ ply_pc' = "idle"
          \/ Len(header_text') < Len(header_text)]_vars

\* parse_metadata on a parser that has not been used: the loop of
\* parse_header from the text left, followed for at most fuel iterations
\* ("loops" when it has not returned by then), and the whole call.
RECURSIVE FreshLoop(_, _, _, _, _)
FreshLoop(txt, count, lay, size, fuel) ==
    LET it == header_line(txt, count, lay, size)
    IN  IF it.outcome # "continue" THEN it
        ELSE IF fuel = 0 THEN [it EXCEPT !.outcome = "loops"]
        ELSE FreshLoop(it.text, it.num_splats, it.layout, it.splat_size, fuel - 1)
FreshParse(bytes) ==
    LET pre == header_preamble(bytes, "Invalid")
        it == FreshLoop(pre.text, SizeZero, EmptyMap, 0, MaxIterations)
    IN  IF pre.outcome # "loop"
        THEN [result |-> FALSE, num_splats |-> SizeZero, layout |-> EmptyMap,
              splat_size |-> 0]
        ELSE [result |-> /\ it.outcome = "true"
                         /\ size_matches(Len(it.text), it.num_splats,
                                         it.splat_size),
              num_splats |-> it.num_splats, layout |-> it.layout,
              splat_size |-> it.splat_size]
\* A valid buffer: one that parse_metadata accepts on a fresh parser.
ValidBuffer(bytes) == FreshParse(bytes).result

\* C21: what parse_metadata returns depends on its buffer only, not on the
\* calls made before on the same parser: on a buffer that a fresh parser
\* accepts, every call returns true and leaves the layout, splat_size and
\* num_splats of the fresh parser, and writes its properties and num_splats
\* into the Metadata.
C21_DependsOnBufferOnly ==
    (MetadataReturned /\ ValidBuffer(call.ply_buffer)) =>
        /\ ret.result
        /\ layout = FreshParse(call.ply_buffer).layout
        /\ splat_size = FreshParse(call.ply_buffer).splat_size
        /\ ply_num_splats = FreshParse(call.ply_buffer).num_splats
        /\ metadata.num_splats = FreshParse(call.ply_buffer).num_splats
        /\ DOMAIN metadata.properties
              = DOMAIN call.metadata.properties
                    \cup DOMAIN FreshParse(call.ply_buffer).layout
        /\ \A q \in DOMAIN FreshParse(call.ply_buffer).layout :
              metadata.properties[q] = FreshParse(call.ply_buffer).layout[q].type

\* The data section of the buffer given to the latest parse_metadata: the
\* positions after the header that a fresh parser accepts in it, none when
\* it accepts none.
DataSection(bytes) ==
    LET pre == header_preamble(bytes, "Invalid")
        it == FreshLoop(pre.text, SizeZero, EmptyMap, 0, MaxIterations)
    IN  IF pre.outcome = "loop" /\ it.outcome = "true"
        THEN Len(bytes) - Len(it.text) .. Len(bytes) - 1
        ELSE {}
\* The byte positions read by the parse_splat call at place k of the log.
BytesRead(k) ==
    UNION {parsed[k].reads[q] .. parsed[k].reads[q] + 3 :
              q \in DOMAIN parsed[k].reads}

\* C22: in every sequence of parse_metadata and parse_data calls on one
\* parser, the getter of parse_data reads only bytes of the data section
\* of the buffer given to the latest parse_metadata, with defined
\* behaviour, and parse_splat is called only if that parse_metadata
\* returned true.
C22_ReadsInsideData ==
    DataCall =>
        /\ ret # NoCall => ~ret.undefined
        /\ \A k \in 1 .. Len(parsed) : BytesRead(k) \subseteq DataSection(buffer.bytes)
        /\ parsed # <<>> =>
              /\ call.metadata_ret # NoCall
              /\ call.metadata_ret.result

=============================================================================
